---- MODULE Spec2Model ----
(***************************************************************************)
(* exercise-finder: the agent pipeline runner, the extraction and          *)
(* formatting batches and the vector-store fetch, as state machines.       *)
(*                                                                         *)
(* One run of the model is one invocation of one entry point (entry).      *)
(* Remote calls (Runner.run, the vector-store search) are split in two     *)
(* steps, the request being issued and its completion, so that requests in *)
(* flight and their failures are states of the model.                      *)
(***************************************************************************)
EXTENDS Integers, Sequences, FiniteSets, TLC

VARIABLES
    entry,      \* which entry point this run executes
    \* ---- agent pipeline (agents/utils.py) ----
    heap,       \* the list objects: heap[i] is the content of list object i
    hist,       \* the caller's conversation_history variable: a list object
    ppc,        \* position of run_agent_pipeline: idle, calling, returned, raised
    frame,      \* arguments of the running run_agent_pipeline call
    sent,       \* input_items handed to Runner.run
    inflight,   \* remote requests issued and not yet completed
    runnerCalls,\* Runner.run calls made by the current invocation
    created,    \* events built by event_factory in the current invocation
    ret,        \* (output, updated_history) returned, or the error raised
    known,      \* every history passed in or returned so far, with its content then
    \* ---- extraction batch (services/examprocessor/main.py) ----
    xexam,      \* the exam directory given: its subdirectories, whether its name parses
    xqs,        \* exam.questions
    xi,         \* position of the for loop in exam.questions (from 1)
    xpc,        \* position of process_exam_dir: idle, loop, awaiting, done, raised
    xerr,       \* the exception that left process_exam_dir
    xout,       \* what happened to each question processed so far
    xcalls,     \* transcription requests issued, per question
    xflight,    \* questions whose transcription request is in flight
    outFiles,   \* the exam output directory: file q<N>.yaml -> the record in it
    xwrites,    \* the files written, in order
    \* ---- formatting batch (services/questionformatter/main.py) ----
    fdirs,      \* the exam directories under question_records_dir, sorted
    fdata,      \* exam_data: (exam id, question records) of the directories that loaded
    fe,         \* position of the outer loop in exam_data (from 1)
    fr,         \* position of the inner loop in the records of exam fe (from 1)
    fpc,        \* position of format_questions: idle, loop, awaiting, done, raised
    ferr,       \* the exception that left format_questions
    fout,       \* what happened to each question record processed so far
    fflight,    \* formatting requests in flight
    fmtFiles,   \* the formatted files written: (exam id, question number)
    \* ---- vector-store fetch (services/vectorstore/main.py) ----
    vreq,       \* the arguments and environment of vectorstore_fetch
    vpc,        \* position of vectorstore_fetch: idle, searching, returned, raised
    vresults,   \* the hits the search returned
    vsel,       \* the position of the selected hit in the results, 0 if none
    vret,       \* the dictionary returned
    verr,       \* the exception raised
    vreads,     \* the formatted-question files looked up, in order
    vflight,    \* search requests in flight
    \* ---- Exam.from_file_path (pydantic_models.py) ----
    nin,        \* the acronym, year and tijdvak the file name was built from
    nfile,      \* the file name given to Exam.from_file_path
    npc,        \* position of from_file_path: idle, called, returned, raised
    nret,       \* the Exam returned, or the exception raised
    \* ---- vector-store attributes (pydantic_models.py) ----
    arec,       \* the QuestionRecord: its identifiers and its three lists of paths
    aattrs,     \* the attributes attributes_for_vector_store made of it
    adec,       \* the lists decoded from the attributes
    apc,        \* idle, stored, decoded
    \* ---- web application (web/app) ----
    now,        \* time.time(), in seconds
    ticks,      \* the steps the clock has made
    jar,        \* the cookies the client holds and sends with its requests
    issued,     \* the cookie pairs set by successful /callback token exchanges
    loggedOut,  \* the client called /logout and no login has succeeded since
    wresp,      \* the response to the client's last request
    \* ---- password sessions (web/auth.py) ----
    session,    \* request.session: the keys it holds and its login_time
    appPassword,\* os.getenv("APP_PASSWORD")
    lastLogin,  \* the time of the last successful POST /login, -1 if none
    loggedOutSince, \* /logout was called after the last successful login
    sresp,      \* the last operation on the session and its outcome
    \* ---- vector store ID cache (config.py) ----
    cfg,        \* get_app_config(): use_ssm and vector_store_id, loaded once
    ssm,        \* the value of /mathwizard-vector-store-id in the Parameter Store
    cache,      \* the lru_cache of _get_vector_store_id_cached: None when empty
    reads,      \* reads of the source since the last invalidation, failed ones included
                \* (a configuration without the ID raises before anything is read)
    okReads,    \* reads of the source since the last invalidation that returned
    firstRead,  \* the value of the first read that returned since the last invalidation
    returned,   \* the value get_vector_store_id returned since the last invalidation
    invalidated,\* what invalidated last: start, refresh or update
    cret,       \* the last call and its outcome
    \* ---- adding records to the vector store (services/vectorstore) ----
    irecs,      \* the records given to add_question_records_to_vector_store
    ifiles,     \* the index files written: record id -> text of the file
    ii,         \* position of the for loop in records (from 1)
    ipc,        \* idle, loop, uploaded, done, raised
    ierr,       \* the exception that left the function
    iuploads,   \* the files uploaded to OpenAI Files, in order
    iattached,  \* the files attached to the vector store, in order
    \* ---- image route (web/app/api/v1.py) ----
    mreq,       \* exam_id and rel_path of the request
    mpc,        \* idle, called, answered
    mresp,      \* the status of the answer and the file served
    \* ---- QuestionRecord.from_yaml and from_exam_dir (pydantic_models.py) ----
    lreq,       \* the loader called, the path and what is on disk at the path
    lpc,        \* idle, called, returned, raised
    lret,       \* the records returned, or the exception raised
    \* ---- AgentMultipartQuestionOutput (pydantic_models.py) ----
    qin,        \* the parts given to the model, in order
    qout,       \* the parts of the validated model, in order
    qpc         \* idle, given, validated

pipeVars == <<heap, hist, ppc, frame, sent, inflight, runnerCalls, created, ret, known>>

exVars == <<xexam, xqs, xi, xpc, xerr, xout, xcalls, xflight, outFiles, xwrites>>

fmtVars == <<fdirs, fdata, fe, fr, fpc, ferr, fout, fflight, fmtFiles>>

vsVars == <<vreq, vpc, vresults, vsel, vret, verr, vreads, vflight>>

nameVars == <<nin, nfile, npc, nret>>

attrVars == <<arec, aattrs, adec, apc>>

webVars == <<now, ticks, jar, issued, loggedOut, wresp>>

sessVars == <<session, appPassword, lastLogin, loggedOutSince, sresp>>

cfgVars == <<cfg, ssm, cache, reads, okReads, firstRead, returned, invalidated, cret>>

idxVars == <<irecs, ifiles, ii, ipc, ierr, iuploads, iattached>>

imgVars == <<mreq, mpc, mresp>>

loadVars == <<lreq, lpc, lret>>

partVars == <<qin, qout, qpc>>

vars == <<entry, pipeVars, exVars, fmtVars, vsVars, nameVars, attrVars, webVars, sessVars, cfgVars, idxVars, imgVars, loadVars, partVars>>

None == "None"

(***************************************************************************)
(* Bounds.                                                                 *)
(***************************************************************************)
\* list objects a run may allocate (histories grow by one event per list)
MaxLists == 4
\* subdirectories of an exam directory
MaxDirs == 3
\* exam directories of a formatting batch, and question records of one exam
MaxExams == 2
MaxRecords == 2
\* hits a search returns
MaxHits == 2

\* the longest path of a record, in characters, and the longest list of paths
MaxPathLen == 2

MaxItems == 2

\* the steps of the clock and the logins of a run of the web application
MaxTicks == 2

MaxLogins == 1

\* reads of the vector store ID's source between two invalidations of the cache
MaxReads == 2

\* the segments of the rel_path of an image request
MaxSegments == 3

\* the items of a YAML file, and the YAML files of an exam directory
MaxLoaded == 2

\* the parts of a multipart question
MaxParts == 27

\* the leading parts whose label and points vary; the parts after them come
\* without label and with the default points
MaxVaried == 3

\* the largest tijdvak of a file name
MaxTijdvak == 10

(***************************************************************************)
(* Conversation events: a tagged union of UserMessageEvent and             *)
(* QuestionEvent with a render-to-text method.                             *)
(***************************************************************************)
UserMessageEvent == "UserMessageEvent"
QuestionEvent == "QuestionEvent"
ConversationEvent == {UserMessageEvent, QuestionEvent}

\* what an event carries (a message, a question): two values tell events apart
Payloads == {"p1", "p2"}

Events == [type : ConversationEvent, payload : Payloads]

\* event.render(): the event as one piece of text
render(event) == <<event.type, event.payload>>

\* QuestionEvent.from_output(output)
from_output(output) == [type |-> QuestionEvent, payload |-> output]

(***************************************************************************)
(* Agent registry (agents/config.py).                                      *)
(***************************************************************************)
GET_QUESTION_AGENT == "get_question_agent"
IMAGES_TO_QUESTION_AGENT == "images_to_question_agent"
FORMAT_MULTIPART_QUESTION_AGENT == "format_multipart_question_agent"
AgentName == {GET_QUESTION_AGENT, IMAGES_TO_QUESTION_AGENT, FORMAT_MULTIPART_QUESTION_AGENT}

agent_name_to_event_mapping(agent) ==
    CASE agent = GET_QUESTION_AGENT -> {UserMessageEvent, QuestionEvent}
      [] agent = IMAGES_TO_QUESTION_AGENT -> {UserMessageEvent}
      [] agent = FORMAT_MULTIPART_QUESTION_AGENT -> {UserMessageEvent}

(***************************************************************************)
(* agents/utils.py.  A history is a Python list: an object of the heap.    *)
(* A function that builds a new list allocates a new object.               *)
(***************************************************************************)
\* init_conversation_history: a new empty list
init_conversation_history == <<>>

\* an append that extends the caller's list in place and returns it
AddEventInPlace(hp, h, event) ==
    [heap |-> [hp EXCEPT ![h] = Append(@, event)], ret |-> h]

\* [*conversation_history, event]: a new list, the given one is only read
add_event_to_conversation_history(hp, h, event) ==
    [heap |-> Append(hp, Append(hp[h], event)), ret |-> Len(hp) + 1]

\* the list comprehension of filter_conversation_history, event by event
RECURSIVE KeptEvents(_, _)
KeptEvents(events, allowed) ==
    IF events = <<>> THEN <<>>
    ELSE (IF Head(events).type \in allowed THEN <<Head(events)>> ELSE <<>>)
         \o KeptEvents(Tail(events), allowed)

\* a filter that hands the whole history on
FilterKeepsAll(hp, h, agent) ==
    [heap |-> hp, kept |-> hp[h]]

\* kept is a new list; removed is only counted for the log line
filter_conversation_history(hp, h, agent) ==
    [heap |-> hp, kept |-> KeptEvents(hp[h], agent_name_to_event_mapping(agent))]

\* "\n".join(event.render() ...) as the sequence of the joined lines,
\* wrapped as one user message
build_conversation_history(events) ==
    [role |-> "user", text |-> [i \in 1..Len(events) |-> render(events[i])]]

\* what the remote model may answer, and how a call may fail
Outputs == Payloads
RemoteErrors == {"APIConnectionError", "RateLimitError"}

\* lines 129-133 with the appended history built from the filtered one
UpdatedHistoryFromFiltered(hp, call, output) ==
    IF call.factory
    THEN [heap |-> Append(hp, Append(call.filtered, from_output(output))),
          ret |-> Len(hp) + 1, created |-> 1]
    ELSE [heap |-> hp, ret |-> call.history, created |-> 0]

\* lines 129-133: updated_history
updated_history(hp, call, output) ==
    IF call.factory
    THEN [heap |-> add_event_to_conversation_history(hp, call.history, from_output(output)).heap,
          ret |-> add_event_to_conversation_history(hp, call.history, from_output(output)).ret,
          created |-> 1]
    ELSE [heap |-> hp, ret |-> call.history, created |-> 0]

NoFrame == [agent |-> None, history |-> 0, factory |-> FALSE, filtered |-> <<>>,
            before |-> <<>>, lists |-> 0]
NoInput == [role |-> None, text |-> <<>>]
NoRet == [output |-> None, history |-> 0, error |-> None, remote |-> None]

PipeInit ==
    /\ heap = << init_conversation_history >>
    /\ hist = 1
    /\ ppc = "idle"
    /\ frame = NoFrame
    /\ sent = NoInput
    /\ inflight = 0
    /\ runnerCalls = 0
    /\ created = 0
    /\ ret = NoRet
    /\ known = {}

\* the caller records a user message (or any event) on its history
CallerAddsEvent ==
    /\ entry \in {"none", "pipeline"}
    /\ entry' = "pipeline"
    /\ ppc = "idle"
    /\ Len(heap) < MaxLists
    /\ \E event \in Events :
         /\ heap' = add_event_to_conversation_history(heap, hist, event).heap
         /\ hist' = add_event_to_conversation_history(heap, hist, event).ret
    /\ known' = known \cup {[id |-> hist, content |-> heap[hist]]}
    /\ UNCHANGED <<ppc, frame, sent, inflight, runnerCalls, created, ret, exVars, fmtVars, vsVars, nameVars, attrVars, webVars, sessVars, cfgVars, idxVars, imgVars, loadVars, partVars>>

\* run_agent_pipeline, lines 118-125: filter, build the input, issue Runner.run
PipelineCalls ==
    /\ entry \in {"none", "pipeline"}
    /\ entry' = "pipeline"
    /\ ppc = "idle"
    /\ \E agent \in AgentName, factory \in BOOLEAN :
         /\ factory => Len(heap) < MaxLists
         /\ LET f == filter_conversation_history(heap, hist, agent)
            IN  /\ heap' = f.heap
                /\ frame' = [agent |-> agent, history |-> hist, factory |-> factory,
                             filtered |-> f.kept, before |-> heap[hist],
                             lists |-> Len(heap)]
                /\ sent' = build_conversation_history(f.kept)
    /\ inflight' = inflight + 1
    /\ runnerCalls' = 1
    /\ created' = 0
    /\ ret' = NoRet
    /\ ppc' = "calling"
    /\ known' = known \cup {[id |-> hist, content |-> heap[hist]]}
    /\ UNCHANGED <<hist, exVars, fmtVars, vsVars, nameVars, attrVars, webVars, sessVars, cfgVars, idxVars, imgVars, loadVars, partVars>>

\* Runner.run answers: lines 126-135
PipelineReturns ==
    /\ entry = "pipeline"
    /\ ppc = "calling"
    /\ \E output \in Outputs :
         LET u == updated_history(heap, frame, output)
         IN  /\ heap' = u.heap
             /\ created' = u.created
             /\ ret' = [output |-> output, history |-> u.ret, error |-> None, remote |-> None]
             /\ known' = known \cup {[id |-> u.ret, content |-> u.heap[u.ret]]}
    /\ inflight' = inflight - 1
    /\ ppc' = "returned"
    /\ UNCHANGED <<entry, hist, frame, sent, runnerCalls, exVars, fmtVars, vsVars, nameVars, attrVars, webVars, sessVars, cfgVars, idxVars, imgVars, loadVars, partVars>>

\* a failure handler that calls the model a second time before giving up
PipelineRetries ==
    /\ entry = "pipeline"
    /\ ppc = "calling"
    /\ \/ /\ runnerCalls < 2
          /\ runnerCalls' = runnerCalls + 1
          /\ UNCHANGED <<ppc, inflight, ret>>
       \/ /\ runnerCalls >= 2
          /\ \E error \in RemoteErrors :
               ret' = [output |-> None, history |-> 0, error |-> error, remote |-> error]
          /\ inflight' = inflight - 1
          /\ ppc' = "raised"
          /\ UNCHANGED runnerCalls
    /\ UNCHANGED <<entry, heap, hist, frame, sent, created, known, exVars, fmtVars, vsVars, nameVars, attrVars, webVars, sessVars, cfgVars, idxVars, imgVars, loadVars, partVars>>

\* Runner.run raises: nothing in run_agent_pipeline catches it
PipelineRaises ==
    /\ entry = "pipeline"
    /\ ppc = "calling"
    /\ \E error \in RemoteErrors :
         ret' = [output |-> None, history |-> 0, error |-> error, remote |-> error]
    /\ inflight' = inflight - 1
    /\ ppc' = "raised"
    /\ UNCHANGED <<entry, heap, hist, frame, sent, runnerCalls, created, known, exVars, fmtVars, vsVars, nameVars, attrVars, webVars, sessVars, cfgVars, idxVars, imgVars, loadVars, partVars>>

\* the caller goes on: with the returned history, or after an error with its own
CallerContinues ==
    /\ entry = "pipeline"
    /\ ppc \in {"returned", "raised"}
    /\ hist' = IF ppc = "returned" THEN ret.history ELSE hist
    /\ ppc' = "idle"
    /\ UNCHANGED <<entry, heap, frame, sent, inflight, runnerCalls, created, ret, known,
                   exVars, fmtVars, vsVars, nameVars, attrVars, webVars, sessVars, cfgVars, idxVars, imgVars, loadVars, partVars>>

PipelineNext ==
    \/ CallerAddsEvent
    \/ PipelineCalls
    \/ PipelineReturns
    \/ PipelineRaises
    \/ CallerContinues

(***************************************************************************)
(* Exam folders (pydantic_models.py).  A directory name is the sequence of *)
(* its character codes, so that names sort and match as the strings do.    *)
(***************************************************************************)
\* q01, q1, q10, q2, Q2 and x1: question folders whose names differ in case and
\* in leading zeros, and a folder that is none
DirNames ==
    { <<113, 48, 49>>, <<113, 49>>, <<113, 49, 48>>, <<113, 50>>, <<81, 50>>,
      <<120, 49>> }

\* a subdirectory: its name and whether pages/*.png matches a file; the files
\* of pages/ and figures/ are PNG images
Dirs == [name : DirNames, pages : BOOLEAN]

\* the exam directories: no two subdirectories share a name
ExamDirs ==
    {d \in SUBSET Dirs :
        /\ Cardinality(d) <= MaxDirs
        /\ \A a, b \in d : a.name = b.name => a = b}

\* str.lower() on one character
lower(c) == IF c \in 65..90 THEN c + 32 ELSE c

\* re.fullmatch(r"q\d+", name.lower())
fullmatch_q_digits(name) ==
    /\ Len(name) >= 2
    /\ lower(name[1]) = 113
    /\ \A i \in 2..Len(name) : lower(name[i]) \in 48..57

\* int(match.group(1)) on the digits of a matching name
RECURSIVE int_digits(_, _)
int_digits(digits, acc) ==
    IF digits = <<>> THEN acc
    ELSE int_digits(Tail(digits), 10 * acc + (Head(digits) - 48))

\* QuestionFolderStructure.get_question_number: q01 -> 1; 0 stands for the ValueError
get_question_number(number) ==
    IF fullmatch_q_digits(number) THEN int_digits(Tail(number), 0) ELSE 0

\* the order of str: by code point, a prefix first
RECURSIVE NameLess(_, _)
NameLess(a, b) ==
    IF a = <<>> THEN b # <<>>
    ELSE IF b = <<>> THEN FALSE
    ELSE IF Head(a) # Head(b) THEN Head(a) < Head(b)
    ELSE NameLess(Tail(a), Tail(b))

\* the folders by descending name
RECURSIVE sorted_descending(_)
sorted_descending(dirs) ==
    IF dirs = {} THEN <<>>
    ELSE LET last == CHOOSE d \in dirs : \A e \in dirs \ {d} : NameLess(e.name, d.name)
         IN  <<last>> \o sorted_descending(dirs \ {last})

\* sorted(..., key=lambda p: p.name)
RECURSIVE sorted_by_name(_)
sorted_by_name(dirs) ==
    IF dirs = {} THEN <<>>
    ELSE LET first == CHOOSE d \in dirs : \A e \in dirs \ {d} : NameLess(d.name, e.name)
         IN  <<first>> \o sorted_by_name(dirs \ {first})

\* QuestionFolderStructure.from_question_dir: number is the directory name
from_question_dir(d) == [number |-> d.name, pages |-> d.pages]

\* validate_pages_directory
validate_pages_directory(q) == q.pages

\* a validator that lets every subdirectory pass
ExtraDirectoriesIgnored(dirs, questions) == TRUE

\* validate_no_extra_directories: every subdirectory is one of the questions
validate_no_extra_directories(dirs, questions) ==
    LET question_dirs == {questions[i].number : i \in 1..Len(questions)}
        extra_dirs == {d.name : d \in dirs} \ question_dirs
    IN  extra_dirs = {}

\* validate_no_duplicate_questions: no q.number (the directory name) occurs twice
validate_no_duplicate_questions(questions) ==
    LET question_numbers == [i \in 1..Len(questions) |-> questions[i].number]
        count(num) == Cardinality({i \in 1..Len(questions) : question_numbers[i] = num})
        duplicates == {i \in 1..Len(questions) : count(question_numbers[i]) > 1}
    IN  duplicates = {}

ValidationError == "ValidationError"

\* ExamFolderStructure.from_exam_dir: the question folders sorted by name, or
\* the validation error of the first validator that fails
from_exam_dir(dirs) ==
    LET questions == sorted_by_name({d \in dirs : fullmatch_q_digits(d.name)})
        built == [i \in 1..Len(questions) |-> from_question_dir(questions[i])]
    IN  IF \E i \in 1..Len(built) : ~validate_pages_directory(built[i])
        THEN [error |-> ValidationError, questions |-> <<>>]
        ELSE IF ~validate_no_extra_directories(dirs, built)
        THEN [error |-> ValidationError, questions |-> <<>>]
        ELSE IF ~validate_no_duplicate_questions(built)
        THEN [error |-> ValidationError, questions |-> <<>>]
        ELSE [error |-> None, questions |-> built]

(***************************************************************************)
(* services/examprocessor/main.py.                                         *)
(***************************************************************************)
\* pydantic's ValidationError is a ValueError
ValueErrors == {"ValueError", ValidationError}

\* what ends the work on one question inside the try block: the transcription
\* answers (and the record validates), a validation error, or a remote error
QuestionOutcomes ==
    [error : {None}, output : Outputs]
        \cup [error : {ValidationError} \cup RemoteErrors, output : {None}]

\* an except clause that catches nothing
ExceptNothing(error) == FALSE

\* an except clause that catches every exception
ExceptEverything(error) == TRUE

\* line 141: except ValueError
except_ValueError(error) == error \in ValueErrors

\* process_question, lines 66-76: the record of a question folder
QuestionRecord(q, output) ==
    [id |-> get_question_number(q.number),
     question_number |-> get_question_number(q.number),
     question_text |-> output,
     source_images |-> q.number]

\* line 131: the file q<question_number>.yaml, named by its number
question_file(record) == record.question_number

\* open(question_file, "w") and yaml.dump: the file holds this record alone
write_yaml(files, file, record) ==
    [f \in DOMAIN files \cup {file} |-> IF f = file THEN record ELSE files[f]]

NoExam == [dirs |-> {}, nameOk |-> TRUE]

ExInit ==
    /\ xexam = NoExam
    /\ xqs = <<>>
    /\ xi = 0
    /\ xpc = "idle"
    /\ xerr = None
    /\ xout = <<>>
    /\ xcalls = <<>>
    /\ xflight = {}
    /\ outFiles = <<>>
    /\ xwrites = <<>>

\* process_exam_dir, lines 111-118: load the exam folder, make the output directory
ExtractStarts ==
    /\ entry = "none"
    /\ entry' = "extract"
    /\ \E dirs \in ExamDirs, nameOk \in BOOLEAN :
         LET exam == from_exam_dir(dirs)
         IN  /\ xexam' = [dirs |-> dirs, nameOk |-> nameOk]
             /\ IF exam.error # None
                THEN /\ xpc' = "raised"
                     /\ xerr' = exam.error
                     /\ UNCHANGED <<xqs, xi, xcalls>>
                ELSE IF ~nameOk
                THEN \* exam.exam: Exam.from_file_path fails on the folder name
                     /\ xpc' = "raised"
                     /\ xerr' = "KeyError"
                     /\ UNCHANGED <<xqs, xi, xcalls>>
                ELSE /\ xqs' = exam.questions
                     /\ xi' = 1
                     /\ xcalls' = [i \in 1..Len(exam.questions) |-> 0]
                     /\ xpc' = IF exam.questions = <<>> THEN "done" ELSE "loop"
                     /\ xerr' = None
    /\ UNCHANGED <<xout, xflight, outFiles, xwrites, pipeVars, fmtVars, vsVars, nameVars, attrVars, webVars, sessVars, cfgVars, idxVars, imgVars, loadVars, partVars>>

\* a loop that starts the transcription of every remaining question at once
ExtractGathersCalls ==
    /\ entry = "extract"
    /\ xpc = "loop"
    /\ xcalls' = [i \in 1..Len(xqs) |-> IF i >= xi THEN xcalls[i] + 1 ELSE xcalls[i]]
    /\ xflight' = xflight \cup xi..Len(xqs)
    /\ xpc' = "awaiting"
    /\ UNCHANGED <<entry, xexam, xqs, xi, xerr, xout, outFiles, xwrites, pipeVars, fmtVars, vsVars, nameVars, attrVars, webVars, sessVars, cfgVars, idxVars, imgVars, loadVars, partVars>>

\* lines 122-128 and process_question up to the await: the transcription
\* request of question xi is issued
ExtractIssuesCall ==
    /\ entry = "extract"
    /\ xpc = "loop"
    /\ xcalls' = [xcalls EXCEPT ![xi] = @ + 1]
    /\ xflight' = xflight \cup {xi}
    /\ xpc' = "awaiting"
    /\ UNCHANGED <<entry, xexam, xqs, xi, xerr, xout, outFiles, xwrites, pipeVars, fmtVars, vsVars, nameVars, attrVars, webVars, sessVars, cfgVars, idxVars, imgVars, loadVars, partVars>>

\* the request completes: lines 129-144
ExtractCallCompletes ==
    /\ entry = "extract"
    /\ xpc = "awaiting"
    /\ xflight' = xflight \ {xi}
    /\ \E outcome \in QuestionOutcomes :
         IF outcome.error = None
         THEN LET record == QuestionRecord(xqs[xi], outcome.output)
              IN  /\ outFiles' = write_yaml(outFiles, question_file(record), record)
                  /\ xwrites' = Append(xwrites, [question |-> xi,
                                                 file |-> question_file(record),
                                                 record |-> record])
                  /\ xout' = Append(xout, [error |-> None, caught |-> FALSE])
                  /\ xi' = xi + 1
                  /\ xpc' = IF xi = Len(xqs) THEN "done" ELSE "loop"
                  /\ UNCHANGED xerr
         ELSE IF except_ValueError(outcome.error)
         THEN /\ xout' = Append(xout, [error |-> outcome.error, caught |-> TRUE])
              /\ xi' = xi + 1
              /\ xpc' = IF xi = Len(xqs) THEN "done" ELSE "loop"
              /\ UNCHANGED <<xerr, outFiles, xwrites>>
         ELSE /\ xout' = Append(xout, [error |-> outcome.error, caught |-> FALSE])
              /\ xpc' = "raised"
              /\ xerr' = outcome.error
              /\ UNCHANGED <<xi, outFiles, xwrites>>
    /\ UNCHANGED <<entry, xexam, xqs, xcalls, pipeVars, fmtVars, vsVars, nameVars, attrVars, webVars, sessVars, cfgVars, idxVars, imgVars, loadVars, partVars>>

ExtractNext ==
    \/ ExtractStarts
    \/ ExtractIssuesCall
    \/ ExtractCallCompletes

(***************************************************************************)
(* services/questionformatter/main.py.                                     *)
(***************************************************************************)
\* QuestionRecord.from_exam_dir on one directory: the records q1.yaml .. qn.yaml
\* hold, a ValueError (no yaml file, a record of another exam, ...), or the
\* KeyError of Exam.from_file_path on a directory that is no exam
ExamLoads ==
    [error : {None}, records : 1..MaxRecords]
        \cup [error : {"ValueError", "KeyError"}, records : {0}]

\* sorted([d for d in question_records_dir.iterdir() if d.is_dir()]): the
\* directories in order, directory i being exam i
RecordDirs == UNION {[1..n -> ExamLoads] : n \in 0..MaxExams}

\* the errors that are an Exception: all that a call or a validation raises
Exceptions == ValueErrors \cup RemoteErrors \cup {"KeyError"}

\* line 94: except Exception
except_Exception(error) == error \in Exceptions

\* lines 40-49: the directories that load; a ValueError skips the directory
RECURSIVE exam_data(_, _)
exam_data(dirs, i) ==
    IF i > Len(dirs) THEN <<>>
    ELSE (IF dirs[i].error = None
          THEN << [exam_id |-> i, records |-> dirs[i].records] >>
          ELSE <<>>)
         \o exam_data(dirs, i + 1)

\* what ends the work on one record inside the try block
FormatOutcomes == {None, ValidationError} \cup RemoteErrors

FmtInit ==
    /\ fdirs = <<>>
    /\ fdata = <<>>
    /\ fe = 0
    /\ fr = 0
    /\ fpc = "idle"
    /\ ferr = None
    /\ fout = <<>>
    /\ fflight = 0
    /\ fmtFiles = {}

\* format_questions, lines 34-49: find and load the exam directories
FormatStarts ==
    /\ entry = "none"
    /\ entry' = "format"
    /\ \E dirs \in RecordDirs :
         /\ fdirs' = dirs
         /\ IF dirs = <<>>
            THEN /\ fpc' = "raised"
                 /\ ferr' = "ValueError"
                 /\ UNCHANGED <<fdata, fe, fr>>
            ELSE IF \E i \in 1..Len(dirs) : dirs[i].error \notin ValueErrors \cup {None}
            THEN \* only ValueError is caught while loading
                 /\ fpc' = "raised"
                 /\ ferr' = "KeyError"
                 /\ UNCHANGED <<fdata, fe, fr>>
            ELSE /\ fdata' = exam_data(dirs, 1)
                 /\ fe' = 1
                 /\ fr' = 1
                 /\ fpc' = IF exam_data(dirs, 1) = <<>> THEN "done" ELSE "loop"
                 /\ ferr' = None
    /\ UNCHANGED <<fout, fflight, fmtFiles, pipeVars, exVars, vsVars, nameVars, attrVars, webVars, sessVars, cfgVars, idxVars, imgVars, loadVars, partVars>>

\* lines 53-66: asyncio.run(format_multipart_question(...)) is called
FormatIssuesCall ==
    /\ entry = "format"
    /\ fpc = "loop"
    /\ fflight' = fflight + 1
    /\ fpc' = "awaiting"
    /\ UNCHANGED <<entry, fdirs, fdata, fe, fr, ferr, fout, fmtFiles, pipeVars, exVars, vsVars, nameVars, attrVars, webVars, sessVars, cfgVars, idxVars, imgVars, loadVars, partVars>>

\* the position after record fr of exam fe
NextRecord ==
    IF fr < fdata[fe].records THEN [e |-> fe, r |-> fr + 1, pc |-> "loop"]
    ELSE IF fe < Len(fdata) THEN [e |-> fe + 1, r |-> 1, pc |-> "loop"]
    ELSE [e |-> fe, r |-> fr, pc |-> "done"]

\* the call completes: lines 67-95
FormatCallCompletes ==
    /\ entry = "format"
    /\ fpc = "awaiting"
    /\ fflight' = fflight - 1
    /\ \E error \in FormatOutcomes :
         IF error = None
         THEN /\ fmtFiles' = fmtFiles \cup {<<fdata[fe].exam_id, fr>>}
              /\ fout' = Append(fout, [exam_id |-> fdata[fe].exam_id, question |-> fr,
                                       error |-> None, caught |-> FALSE])
              /\ fe' = NextRecord.e
              /\ fr' = NextRecord.r
              /\ fpc' = NextRecord.pc
              /\ UNCHANGED ferr
         ELSE IF except_Exception(error)
         THEN /\ fout' = Append(fout, [exam_id |-> fdata[fe].exam_id, question |-> fr,
                                       error |-> error, caught |-> TRUE])
              /\ fe' = NextRecord.e
              /\ fr' = NextRecord.r
              /\ fpc' = NextRecord.pc
              /\ UNCHANGED <<ferr, fmtFiles>>
         ELSE /\ fout' = Append(fout, [exam_id |-> fdata[fe].exam_id, question |-> fr,
                                       error |-> error, caught |-> FALSE])
              /\ fpc' = "raised"
              /\ ferr' = error
              /\ UNCHANGED <<fe, fr, fmtFiles>>
    /\ UNCHANGED <<entry, fdirs, fdata, pipeVars, exVars, vsVars, nameVars, attrVars, webVars, sessVars, cfgVars, idxVars, imgVars, loadVars, partVars>>

FormatNext ==
    \/ FormatStarts
    \/ FormatIssuesCall
    \/ FormatCallCompletes

(***************************************************************************)
(* services/vectorstore/main.py: vectorstore_fetch.                        *)
(*                                                                         *)
(* A text is the sequence of its character codes: " is 34, , is 44, [ is   *)
(* 91, \ is 92, ] is 93.  A dictionary of attributes is the set of its     *)
(* keys and the value of each.                                             *)
(***************************************************************************)
\* the characters of a string between the quotes of its JSON text: " and \
\* are escaped with a backslash, a line feed is written \n
RECURSIVE escape(_)
escape(s) ==
    IF s = <<>> THEN <<>>
    ELSE (IF Head(s) \in {34, 92} THEN <<92, Head(s)>>
          ELSE IF Head(s) = 10 THEN <<92, 110>>
          ELSE <<Head(s)>>) \o escape(Tail(s))

\* a string written between quotes as it is
EncodeUnescaped(s) == <<34>> \o s \o <<34>>

\* json.encoder.encode_basestring, as json.dumps(ensure_ascii=False) uses it
encode_basestring(s) == <<34>> \o escape(s) \o <<34>>

\* the items of a list, separated by ", "
RECURSIVE join_items(_)
join_items(list) ==
    IF list = <<>> THEN <<>>
    ELSE encode_basestring(Head(list))
            \o (IF Len(list) > 1 THEN <<44, 32>> \o join_items(Tail(list)) ELSE <<>>)

\* json.dumps of a list of strings: ["a", "b"]
json_dumps(list) == <<91>> \o join_items(list) \o <<93>>

JSONDecodeError == [error |-> "JSONDecodeError", value |-> <<>>, next |-> 0]

\* the first position from i on that holds no white space
RECURSIVE skip_whitespace(_, _)
skip_whitespace(text, i) ==
    IF i <= Len(text) /\ text[i] \in {32, 9, 10, 13} THEN skip_whitespace(text, i + 1) ELSE i

\* json.decoder.scanstring from position i, after the opening quote
RECURSIVE scanstring(_, _, _)
scanstring(text, i, acc) ==
    IF i > Len(text) THEN JSONDecodeError
    ELSE IF text[i] = 34 THEN [error |-> None, value |-> acc, next |-> i + 1]
    ELSE IF text[i] = 92
    THEN IF i + 1 > Len(text) THEN JSONDecodeError
         ELSE IF text[i + 1] \in {34, 92, 47}
         THEN scanstring(text, i + 2, Append(acc, text[i + 1]))
         ELSE IF text[i + 1] = 110 THEN scanstring(text, i + 2, Append(acc, 10))
         ELSE JSONDecodeError
    ELSE IF text[i] < 32 THEN JSONDecodeError
    ELSE scanstring(text, i + 1, Append(acc, text[i]))

\* the items of an array of strings from position i, up to its closing bracket
RECURSIVE parse_items(_, _, _)
parse_items(text, i, acc) ==
    LET j == skip_whitespace(text, i)
    IN  IF j > Len(text) \/ text[j] # 34 THEN JSONDecodeError
        ELSE LET item == scanstring(text, j + 1, <<>>)
                 k == skip_whitespace(text, item.next)
             IN  IF item.error # None \/ k > Len(text) THEN JSONDecodeError
                 ELSE IF text[k] = 44
                 THEN parse_items(text, k + 1, Append(acc, item.value))
                 ELSE IF text[k] = 93
                 THEN [error |-> None, value |-> Append(acc, item.value), next |-> k + 1]
                 ELSE JSONDecodeError

\* json.loads of the text of a list of strings; a text that is none raises
\* JSONDecodeError
json_loads(text) ==
    LET i == skip_whitespace(text, 1)
        j == skip_whitespace(text, i + 1)
        array == IF j <= Len(text) /\ text[j] = 93
                 THEN [error |-> None, value |-> <<>>, next |-> j + 1]
                 ELSE parse_items(text, j, <<>>)
    IN  IF i > Len(text) \/ text[i] # 91 THEN [error |-> "JSONDecodeError", value |-> <<>>]
        ELSE IF array.error # None \/ skip_whitespace(text, array.next) <= Len(text)
        THEN [error |-> "JSONDecodeError", value |-> <<>>]
        ELSE [error |-> None, value |-> array.value]

AttributeKeys == {"record_id", "exam_id", "question_number", "page_images", "figure_images"}

\* an optional list: None, or the list
NoList == [none |-> TRUE, list |-> <<>>]

SomeList(list) == [none |-> FALSE, list |-> list]

\* self.page_images or []
or_empty(optional) == IF optional.none THEN <<>> ELSE optional.list

\* QuestionRecord.attributes_for_vector_store: the identifiers and the three
\* lists of paths, each written as a JSON text
attributes_for_vector_store(record) ==
    [record_id |-> record.id,
     exam_id |-> record.exam_id,
     question_number |-> record.question_number,
     page_images |-> json_dumps(or_empty(record.page_images)),
     figure_images |-> json_dumps(or_empty(record.figure_images)),
     source_images |-> json_dumps(record.source_images)]

\* the attributes of a stored question, as attributes_for_vector_store writes them
StoredAttributes(record_id, exam_id, question_number, pages, figures) ==
    attributes_for_vector_store(
        [id |-> record_id, exam_id |-> exam_id, question_number |-> question_number,
         page_images |-> SomeList(pages), figure_images |-> SomeList(figures),
         source_images |-> <<>>])

\* the paths p1, p2 and f1 of the stored questions
p1 == <<112, 49>>

p2 == <<112, 50>>

f1 == <<102, 49>>

\* the hits a search may return: two stored questions, a hit that lacks its
\* question number, one that lacks its exam id, one with no attributes at all,
\* one stored without image lists, and one whose page list is no JSON
SearchHits ==
    LET a == StoredAttributes("e1-q1", "e1", "1", <<p1, p2>>, <<>>)
        b == StoredAttributes("e2-q2", "e2", "2", <<p2>>, <<f1>>)
    IN  { [score |-> 9, keys |-> AttributeKeys, val |-> a],
          [score |-> 5, keys |-> AttributeKeys, val |-> b],
          [score |-> 4, keys |-> AttributeKeys \ {"question_number"}, val |-> a],
          [score |-> 3, keys |-> AttributeKeys \ {"exam_id"}, val |-> b],
          [score |-> 2, keys |-> {}, val |-> a],
          [score |-> 1, keys |-> {"record_id", "exam_id", "question_number"}, val |-> b],
          [score |-> 0, keys |-> AttributeKeys,
           val |-> [a EXCEPT !.page_images = <<91, 34, 112, 49>>]] }

\* the formatted question files that may exist: (exam id, question number)
FormattedFiles == {<<"e1", "1">>, <<"e2", "2">>}

\* a lookup that ignores which attributes the hit has
GetStored(hit, key, default) == hit.val[key]

\* attrs.get(key, default)
get(hit, key, default) == IF key \in hit.keys THEN hit.val[key] ELSE default

\* a selection that takes the last hit
SelectLast(results, best, k) == results[Len(results)]

\* line 60: results[0] if best else random.choice(results), k being the choice
select_result(results, best, k) == IF best THEN results[1] ELSE results[k]

\* lines 56-91: from the search results to the dictionary returned, or to the
\* exception raised; reads are the formatted-question files looked up
fetch_result(results, best, k, files) ==
    IF results = <<>>
    THEN [error |-> "ValueError", reads |-> <<>>, value |-> None]
    ELSE LET selected_result == select_result(results, best, k)
             exam_id == get(selected_result, "exam_id", None)
             question_number == get(selected_result, "question_number", None)
             page_images == json_loads(get(selected_result, "page_images", <<91, 93>>))
             figure_images == json_loads(get(selected_result, "figure_images", <<91, 93>>))
         IN  IF question_number = None
             THEN [error |-> "ValueError", reads |-> <<>>, value |-> None]
             ELSE IF exam_id = None
             THEN [error |-> "ValueError", reads |-> <<>>, value |-> None]
             ELSE IF <<exam_id, question_number>> \notin files
             THEN [error |-> "FileNotFoundError",
                   reads |-> << <<exam_id, question_number>> >>, value |-> None]
             ELSE IF page_images.error # None
             THEN [error |-> page_images.error,
                   reads |-> << <<exam_id, question_number>> >>, value |-> None]
             ELSE IF figure_images.error # None
             THEN [error |-> figure_images.error,
                   reads |-> << <<exam_id, question_number>> >>, value |-> None]
             ELSE [error |-> None,
                   reads |-> << <<exam_id, question_number>> >>,
                   value |-> [record_id |-> get(selected_result, "record_id", None),
                              exam_id |-> exam_id,
                              score |-> selected_result.score,
                              formatted |-> <<exam_id, question_number>>,
                              page_images |-> page_images.value,
                              figure_images |-> figure_images.value]]

NoRequest == [best |-> TRUE, max_results |-> 0, api_key |-> TRUE, files |-> {}]

VsInit ==
    /\ vreq = NoRequest
    /\ vpc = "idle"
    /\ vresults = <<>>
    /\ vsel = 0
    /\ vret = None
    /\ verr = None
    /\ vreads = <<>>
    /\ vflight = 0

\* vectorstore_fetch, lines 47-55: the client is built and the search issued
FetchStarts ==
    /\ entry = "none"
    /\ entry' = "fetch"
    /\ \E best \in BOOLEAN, max_results \in 1..MaxHits, api_key \in BOOLEAN,
          files \in SUBSET FormattedFiles :
         /\ vreq' = [best |-> best, max_results |-> max_results, api_key |-> api_key,
                     files |-> files]
         /\ IF api_key
            THEN /\ vpc' = "searching"
                 /\ vflight' = vflight + 1
                 /\ UNCHANGED verr
            ELSE \* _get_client: Missing OPENAI_API_KEY
                 /\ vpc' = "raised"
                 /\ verr' = "ValueError"
                 /\ UNCHANGED vflight
    /\ UNCHANGED <<vresults, vsel, vret, vreads, pipeVars, exVars, fmtVars, nameVars, attrVars, webVars, sessVars, cfgVars, idxVars, imgVars, loadVars, partVars>>

\* the search fails: search_vector_store raises
FetchSearchFails ==
    /\ entry = "fetch"
    /\ vpc = "searching"
    /\ vflight' = vflight - 1
    /\ \E error \in RemoteErrors : verr' = error
    /\ vpc' = "raised"
    /\ UNCHANGED <<entry, vreq, vresults, vsel, vret, vreads, pipeVars, exVars, fmtVars, nameVars, attrVars, webVars, sessVars, cfgVars, idxVars, imgVars, loadVars, partVars>>

\* the search answers with at most max_results hits: lines 56-91
FetchSearchReturns ==
    /\ entry = "fetch"
    /\ vpc = "searching"
    /\ vflight' = vflight - 1
    /\ \E n \in 0..vreq.max_results :
         \E results \in [1..n -> SearchHits] :
            \E k \in 1..(IF vreq.best \/ n = 0 THEN 1 ELSE n) :
               LET r == fetch_result(results, vreq.best, k, vreq.files)
               IN  /\ vresults' = results
                   /\ vsel' = IF n = 0 THEN 0 ELSE IF vreq.best THEN 1 ELSE k
                   /\ vreads' = r.reads
                   /\ vret' = r.value
                   /\ verr' = r.error
                   /\ vpc' = IF r.error = None THEN "returned" ELSE "raised"
    /\ UNCHANGED <<entry, vreq, pipeVars, exVars, fmtVars, nameVars, attrVars, webVars, sessVars, cfgVars, idxVars, imgVars, loadVars, partVars>>

FetchNext ==
    \/ FetchStarts
    \/ FetchSearchFails
    \/ FetchSearchReturns

(***************************************************************************)
(* Exam.from_file_path (pydantic_models.py).  A file name is the sequence  *)
(* of its character codes: - is 45, . is 46, 0..9 are 48..57.              *)
(***************************************************************************)
\* str.split(sep): the parts between the separators
RECURSIVE split(_, _)
split(s, sep) ==
    IF \A i \in 1..Len(s) : s[i] # sep THEN <<s>>
    ELSE LET k == CHOOSE i \in 1..Len(s) : s[i] = sep /\ \A j \in 1..(i - 1) : s[j] # sep
         IN  <<SubSeq(s, 1, k - 1)>> \o split(SubSeq(s, k + 1, Len(s)), sep)

\* Path.stem: the name without its last suffix
stem(name) ==
    LET dots == {i \in 2..(Len(name) - 1) : name[i] = 46}
    IN  IF dots = {} THEN name
        ELSE SubSeq(name, 1, (CHOOSE i \in dots : \A j \in dots : j <= i) - 1)

\* str.lower()
str_lower(s) == [i \in 1..Len(s) |-> lower(s[i])]

\* constants.py: vw, hv and vm
pdf_acronym_to_level_mapping ==
    (<<118, 119>> :> "VWO") @@ (<<104, 118>> :> "HAVO") @@ (<<118, 109>> :> "VMBO")

\* a lookup of the acronym as it is spelled in the file name
LevelCaseSensitive(part) ==
    IF part \in DOMAIN pdf_acronym_to_level_mapping
    THEN [error |-> None, value |-> pdf_acronym_to_level_mapping[part]]
    ELSE [error |-> "KeyError", value |-> None]

\* line 28: pdf_acronym_to_level_mapping[parts[0].lower()]
level_of(part) ==
    IF str_lower(part) \in DOMAIN pdf_acronym_to_level_mapping
    THEN [error |-> None, value |-> pdf_acronym_to_level_mapping[str_lower(part)]]
    ELSE [error |-> "KeyError", value |-> None]

\* datetime.strptime(s, "%y").year: two digits, 00..68 in 2000..2068 and
\* 69..99 in 1969..1999
strptime_y(s) ==
    IF Len(s) = 2 /\ \A i \in 1..2 : s[i] \in 48..57
    THEN [error |-> None,
          value |-> IF int_digits(s, 0) <= 68 THEN 2000 + int_digits(s, 0)
                    ELSE 1900 + int_digits(s, 0)]
    ELSE [error |-> "ValueError", value |-> 0]

\* int(s) on a text of decimal digits
int_str(s) ==
    IF s # <<>> /\ \A i \in 1..Len(s) : s[i] \in 48..57
    THEN [error |-> None, value |-> int_digits(s, 0)]
    ELSE [error |-> "ValueError", value |-> 0]

\* Exam.from_file_path: the keyword arguments are evaluated in order
from_file_path(name) ==
    LET parts == split(stem(name), 45)
        level == level_of(parts[1])
        year  == strptime_y(parts[4])
        tijdvak == int_str(parts[5])
    IN  IF level.error # None THEN [error |-> level.error, value |-> None]
        ELSE IF Len(parts) < 4 THEN [error |-> "IndexError", value |-> None]
        ELSE IF year.error # None THEN [error |-> year.error, value |-> None]
        ELSE IF Len(parts) < 5 THEN [error |-> "IndexError", value |-> None]
        ELSE IF tijdvak.error # None THEN [error |-> tijdvak.error, value |-> None]
        ELSE [error |-> None,
              value |-> [id |-> stem(name), level |-> level.value,
                         year |-> year.value, tijdvak |-> tijdvak.value]]

\* str(n) of a natural number
RECURSIVE str_int(_)
str_int(n) == IF n < 10 THEN <<48 + n>> ELSE str_int(n \div 10) \o <<48 + (n % 10)>>

\* the spellings of an acronym in lower and upper case letters
Spellings(key) ==
    {[i \in 1..Len(key) |-> IF i \in U THEN key[i] - 32 ELSE key[i]] :
        U \in SUBSET (1..Len(key))}

\* the acronyms of the file names: vw, hv and vm in any letter case, and xx
Acronyms == UNION {Spellings(key) : key \in DOMAIN pdf_acronym_to_level_mapping}
                \cup {<<120, 120>>}

\* the years of the exams
Years == {1968, 1969, 1999, 2000, 2018, 2068, 2069}

\* a file name of the naming convention, as VW-1025-a-18-1-o.pdf
exam_file_name(acronym, year, tijdvak) ==
    acronym \o <<45, 49, 48, 50, 53, 45, 97, 45>>
            \o <<48 + ((year % 100) \div 10), 48 + (year % 10)>>
            \o <<45>> \o str_int(tijdvak) \o <<45, 111, 46, 112, 100, 102>>

NoName == [acronym |-> <<>>, year |-> 0, tijdvak |-> 0]

NameInit ==
    /\ nin = NoName
    /\ nfile = <<>>
    /\ npc = "idle"
    /\ nret = [error |-> None, value |-> None]

\* Exam.from_file_path is called on a file name
ParseStarts ==
    /\ entry = "none"
    /\ entry' = "parse"
    /\ \E acronym \in Acronyms, year \in Years, tijdvak \in 0..MaxTijdvak :
         /\ nin' = [acronym |-> acronym, year |-> year, tijdvak |-> tijdvak]
         /\ nfile' = exam_file_name(acronym, year, tijdvak)
    /\ npc' = "called"
    /\ UNCHANGED <<nret, pipeVars, exVars, fmtVars, vsVars, attrVars, webVars, sessVars, cfgVars, idxVars, imgVars, loadVars, partVars>>

\* it returns the Exam or raises
ParseReturns ==
    /\ entry = "parse"
    /\ npc = "called"
    /\ nret' = from_file_path(nfile)
    /\ npc' = IF from_file_path(nfile).error = None THEN "returned" ELSE "raised"
    /\ UNCHANGED <<entry, nin, nfile, pipeVars, exVars, fmtVars, vsVars, attrVars, webVars, sessVars, cfgVars, idxVars, imgVars, loadVars, partVars>>

ParseNext ==
    \/ ParseStarts
    \/ ParseReturns

(***************************************************************************)
(* Vector-store attributes of a QuestionRecord (pydantic_models.py).       *)
(***************************************************************************)
\* the characters of the paths: ", \ and ,
PathChars == {34, 92, 44}

Paths == UNION {[1..n -> PathChars] : n \in 0..MaxPathLen}

PathLists == UNION {[1..n -> Paths] : n \in 0..MaxItems}

\* the records: one of page_images, figure_images and source_images holds the
\* list, the optional ones are None otherwise
QuestionRecords ==
    {[id |-> "e1-q1", exam_id |-> "e1", question_number |-> "1",
      page_images |-> IF field = 1 THEN SomeList(list) ELSE NoList,
      figure_images |-> IF field = 2 THEN SomeList(list) ELSE NoList,
      source_images |-> IF field = 3 THEN list ELSE <<>>] :
        list \in PathLists, field \in 1..3}

\* QuestionRecordVectorStoreAttributes.get_page_images, get_figure_images and
\* get_source_images
get_page_images(attributes) == json_loads(attributes.page_images)

get_figure_images(attributes) == json_loads(attributes.figure_images)

get_source_images(attributes) == json_loads(attributes.source_images)

NoRecord ==
    [id |-> None, exam_id |-> None, question_number |-> None,
     page_images |-> NoList, figure_images |-> NoList, source_images |-> <<>>]

NoDecoded == [error |-> None, value |-> <<>>]

AttrInit ==
    /\ arec = NoRecord
    /\ aattrs = attributes_for_vector_store(NoRecord)
    /\ adec = [page_images |-> NoDecoded, figure_images |-> NoDecoded,
               source_images |-> NoDecoded]
    /\ apc = "idle"

\* a record is stored: its attributes are written
AttrsStored ==
    /\ entry = "none"
    /\ entry' = "attrs"
    /\ \E record \in QuestionRecords :
         /\ arec' = record
         /\ aattrs' = attributes_for_vector_store(record)
    /\ apc' = "stored"
    /\ UNCHANGED <<adec, pipeVars, exVars, fmtVars, vsVars, nameVars, webVars, sessVars, cfgVars, idxVars, imgVars, loadVars, partVars>>

\* the lists are read back from the attributes
AttrsDecoded ==
    /\ entry = "attrs"
    /\ apc = "stored"
    /\ adec' = [page_images |-> get_page_images(aattrs),
                figure_images |-> get_figure_images(aattrs),
                source_images |-> get_source_images(aattrs)]
    /\ apc' = "decoded"
    /\ UNCHANGED <<entry, arec, aattrs, pipeVars, exVars, fmtVars, vsVars, nameVars, webVars, sessVars, cfgVars, idxVars, imgVars, loadVars, partVars>>

AttrNext ==
    \/ AttrsStored
    \/ AttrsDecoded

(***************************************************************************)
(* Web application: web/app/__init__.py, web/app/auth.py (Cognito),        *)
(* web/app/routes and web/app/api/v1.py.                                   *)
(*                                                                         *)
(* The server keeps no session: a request is authenticated by the cookies  *)
(* it carries.  The client holds a cookie jar, which the Set-Cookie        *)
(* headers of the responses change and which the client may rewrite.       *)
(***************************************************************************)
\* constants.py line 25
SESSION_EXPIRATION_SECONDS == 24 * 60 * 60

\* the id_token of a Cognito token exchange, a well-formed token made by the
\* client, and a text that is no JWT
CognitoToken == "cognito.jwt"

ClientToken == "client.jwt"

GarbageToken == "garbage"

\* jwt.decode with verify_signature and every other verification off: the
\* token only has to be a JWT
jwt_decode(token) ==
    IF token \in {CognitoToken, ClientToken} THEN [error |-> None]
    ELSE [error |-> "JWTError"]

\* float(login_time_str): a decimal number, nan, or a ValueError
float_str(text) ==
    IF text # <<>> /\ \A i \in 1..Len(text) : text[i] \in 48..57
    THEN [error |-> None, nan |-> FALSE, value |-> int_digits(text, 0)]
    ELSE IF text = <<110, 97, 110>>
    THEN [error |-> None, nan |-> TRUE, value |-> 0]
    ELSE [error |-> "ValueError", nan |-> FALSE, value |-> 0]

\* the cookies of a request: the names present, and the value of each
NoCookies == [keys |-> {}, id_token |-> "", login_time |-> <<>>]

Cookies(id_token, login_time) ==
    [keys |-> {"id_token", "login_time"}, id_token |-> id_token, login_time |-> login_time]

\* is_authenticated, for the cookies of the request and time.time() = time
is_authenticated(cookies, time) ==
    IF "id_token" \notin cookies.keys \/ cookies.id_token = "" THEN FALSE
    ELSE IF "login_time" \notin cookies.keys \/ cookies.login_time = <<>> THEN FALSE
    ELSE LET login_time == float_str(cookies.login_time)
         IN  IF login_time.error # None THEN FALSE
             \* a comparison with nan is false
             ELSE IF ~login_time.nan /\ time - login_time.value > SESSION_EXPIRATION_SECONDS
             THEN FALSE
             ELSE IF jwt_decode(cookies.id_token).error # None THEN FALSE
             ELSE TRUE

\* the routes of the application
INDEX == "GET /"

UNITCIRCLE == "GET /practice/unitcircle"

DERIVATIVES == "GET /practice/derivatives"

FETCH == "POST /api/v1/fetch"

REFRESH_CONFIG == "POST /api/v1/refresh-config"

IMAGE == "GET /api/v1/image/{exam_id}/{rel_path:path}"

LOGIN == "GET /login"

CALLBACK == "GET /callback"

LOGOUT == "POST /logout"

\* a route table in which the image route has no dependency
ImageRouteOpen(endpoint) ==
    endpoint \in {INDEX, UNITCIRCLE, DERIVATIVES, FETCH, REFRESH_CONFIG}

\* the routes declared with Depends(require_authentication)
depends_require_authentication(endpoint) ==
    endpoint \in {INDEX, UNITCIRCLE, DERIVATIVES, FETCH, REFRESH_CONFIG, IMAGE}

\* v1.py line 36: APIRouter(prefix="/api/v1"), and the image route under it
router_prefix == <<"api", "v1">>

image_route == router_prefix \o <<"image">>

\* v1.py lines 75-76: f"/image/{exam_id}/{p}"
image_url(exam_id, p) == [segments |-> <<"image">>, exam_id |-> exam_id, rel_path |-> p]

\* the white space of str.strip() that the requests use: tab, newline, space
Whitespace == {9, 10, 32}

\* a query that is passed on as it is
StripNothing(text) == text

\* str.strip()
RECURSIVE strip(_)
strip(text) ==
    IF text # <<>> /\ Head(text) \in Whitespace THEN strip(Tail(text))
    ELSE IF text # <<>> /\ text[Len(text)] \in Whitespace
    THEN strip(SubSeq(text, 1, Len(text) - 1))
    ELSE text

\* FetchRequest: the query is empty, blank, "q" or " q\n"; max_results around its limits
FetchRequests ==
    [query : {<<>>, <<32, 9>>, <<113>>, <<32, 113, 10>>}, mode : {"best", "random"}, max_results : {0, 1, 20, 21}]

NoPayload == [query |-> <<>>, mode |-> "best", max_results |-> 0]

\* the dictionary that the route test makes the patched vectorstore_fetch return
MockResult ==
    [record_id |-> "test-exam-q1", exam_id |-> "test-exam", question_number |-> "1",
     page_images |-> <<p1>>, figure_images |-> <<f1>>]

NoSearch == [error |-> None, value |-> None]

NoBody == [page_images |-> <<>>, figure_images |-> <<>>]

\* a response; the fields after effects are those of the fetch route
Response(endpoint, checked, authenticated, status, location, ran, effects) ==
    [endpoint |-> endpoint, checked |-> checked, authenticated |-> authenticated,
     status |-> status, location |-> location, ran |-> ran, effects |-> effects,
     payload |-> NoPayload, patched |-> FALSE, searched |-> NoPayload, search |-> NoSearch,
     error |-> None, body |-> NoBody]

NoResponse == Response(None, FALSE, FALSE, 0, None, FALSE, {})

\* __init__.py lines 71-74: NotAuthenticatedException is answered by a redirect
not_authenticated_handler(endpoint) ==
    Response(endpoint, TRUE, FALSE, 303, "/login", FALSE, {})

\* v1.py lines 48-77: the body of fetch, given what the awaited
\* vectorstore_fetch returned or raised
fetch(payload, patched, search) ==
    LET base == [Response(FETCH, TRUE, TRUE, 200, None, TRUE, {}) EXCEPT
                     !.payload = payload, !.patched = patched]
        called == [base EXCEPT
                      !.effects = {"search"}, !.search = search,
                      !.searched = [query |-> strip(payload.query), mode |-> payload.mode,
                                    max_results |-> payload.max_results]]
    IN  IF strip(payload.query) = <<>> THEN [base EXCEPT !.status = 400]
        ELSE IF payload.max_results < 1 \/ payload.max_results > 20
        THEN [base EXCEPT !.status = 400]
        ELSE IF search.error # None
        THEN [called EXCEPT !.status = 500, !.error = search.error]
        ELSE IF "question_number" \notin DOMAIN search.value
        THEN [called EXCEPT !.status = 500, !.error = "KeyError"]
        ELSE [called EXCEPT
                 !.effects = {"search", "load_formatted"},
                 !.body = [page_images |->
                              [i \in 1..Len(search.value.page_images) |->
                                  image_url(search.value.exam_id, search.value.page_images[i])],
                           figure_images |->
                              [i \in 1..Len(search.value.figure_images) |->
                                  image_url(search.value.exam_id, search.value.figure_images[i])]]]

\* what vectorstore_fetch returns or raises when the search itself succeeds,
\* for each mode and max_results of a valid request
SearchOutcomes ==
    [mode \in {"best", "random"}, max_results \in 1..20 |->
        UNION {UNION {{[error |-> fetch_result(results, mode = "best", k, files).error,
                        value |-> fetch_result(results, mode = "best", k, files).value] :
                          k \in 1..(IF mode = "best" \/ n = 0 THEN 1 ELSE n)} :
                      results \in [1..n -> SearchHits], files \in SUBSET FormattedFiles} :
               n \in 0..(IF max_results < MaxHits THEN max_results ELSE MaxHits)}]

WebInit ==
    /\ now = 0
    /\ ticks = 0
    /\ jar = NoCookies
    /\ issued = {}
    /\ loggedOut = FALSE
    /\ wresp = NoResponse

\* create_app: the application starts
AppStarts ==
    /\ entry = "none"
    /\ entry' = "web"
    /\ UNCHANGED <<webVars, pipeVars, exVars, fmtVars, vsVars, nameVars, attrVars, sessVars, cfgVars, idxVars, imgVars, loadVars, partVars>>

\* time passes: a second, or the 24 hours of a session
Tick ==
    /\ entry \in {"web", "session"}
    /\ wresp = NoResponse
    /\ ticks < MaxTicks
    /\ \E d \in {1, SESSION_EXPIRATION_SECONDS} : now' = now + d
    /\ ticks' = ticks + 1
    /\ UNCHANGED <<entry, jar, issued, loggedOut, wresp, pipeVars, exVars, fmtVars, vsVars, nameVars,
                   attrVars, sessVars, cfgVars, idxVars, imgVars, loadVars, partVars>>

\* the client writes cookies of its own choice into its jar: a token it made
\* or kept, and a login time it made or kept
ClientSetsCookies ==
    /\ entry = "web"
    /\ wresp = NoResponse
    /\ \E id_token \in {"", GarbageToken, ClientToken} \cup {c.id_token : c \in issued},
          login_time \in {<<>>, <<97, 98, 99>>, <<110, 97, 110>>, str_int(now)}
                            \cup {c.login_time : c \in issued},
          keys \in SUBSET {"id_token", "login_time"} :
         jar' = [keys |-> keys,
                 id_token |-> IF "id_token" \in keys THEN id_token ELSE "",
                 login_time |-> IF "login_time" \in keys THEN login_time ELSE <<>>]
    /\ UNCHANGED <<entry, now, ticks, issued, loggedOut, wresp, pipeVars, exVars, fmtVars, vsVars,
                   nameVars, attrVars, sessVars, cfgVars, idxVars, imgVars, loadVars, partVars>>

\* GET /, GET /practice/unitcircle, GET /practice/derivatives: the page is rendered
PageRequest ==
    /\ entry = "web"
    /\ wresp = NoResponse
    /\ \E endpoint \in {INDEX, UNITCIRCLE, DERIVATIVES} :
         wresp' = IF depends_require_authentication(endpoint) /\ ~is_authenticated(jar, now)
                  THEN not_authenticated_handler(endpoint)
                  ELSE Response(endpoint, depends_require_authentication(endpoint),
                                is_authenticated(jar, now), 200, None, TRUE, {"render"})
    /\ UNCHANGED <<entry, now, ticks, jar, issued, loggedOut, pipeVars, exVars, fmtVars, vsVars,
                   nameVars, attrVars, sessVars, cfgVars, idxVars, imgVars, loadVars, partVars>>

\* POST /api/v1/fetch: vectorstore_fetch is the function of the vector-store
\* service, or the one the route test patches in
FetchRequest ==
    /\ entry = "web"
    /\ wresp = NoResponse
    /\ IF depends_require_authentication(FETCH) /\ ~is_authenticated(jar, now)
       THEN wresp' = not_authenticated_handler(FETCH)
       ELSE \E payload \in FetchRequests :
              IF strip(payload.query) = <<>> \/ payload.max_results \notin 1..20
              THEN wresp' = fetch(payload, FALSE, NoSearch)
              ELSE \/ wresp' = fetch(payload, TRUE, [error |-> None, value |-> MockResult])
                   \/ \E failure \in RemoteErrors :
                        wresp' = fetch(payload, FALSE, [error |-> failure, value |-> None])
                   \/ \E search \in SearchOutcomes[payload.mode, payload.max_results] :
                        wresp' = fetch(payload, FALSE, search)
    /\ UNCHANGED <<entry, now, ticks, jar, issued, loggedOut, pipeVars, exVars, fmtVars, vsVars,
                   nameVars, attrVars, sessVars, cfgVars, idxVars, imgVars, loadVars, partVars>>

\* POST /api/v1/refresh-config
RefreshConfigRequest ==
    /\ entry = "web"
    /\ wresp = NoResponse
    /\ wresp' = IF depends_require_authentication(REFRESH_CONFIG) /\ ~is_authenticated(jar, now)
                THEN not_authenticated_handler(REFRESH_CONFIG)
                ELSE Response(REFRESH_CONFIG, depends_require_authentication(REFRESH_CONFIG),
                              is_authenticated(jar, now), 200, None, TRUE, {"refresh"})
    /\ UNCHANGED <<entry, now, ticks, jar, issued, loggedOut, pipeVars, exVars, fmtVars, vsVars,
                   nameVars, attrVars, sessVars, cfgVars, idxVars, imgVars, loadVars, partVars>>

\* GET /api/v1/image/...: the file is served if it is a file under the exams root
ImageRequest ==
    /\ entry = "web"
    /\ wresp = NoResponse
    /\ \E is_file \in BOOLEAN :
         wresp' = IF depends_require_authentication(IMAGE) /\ ~is_authenticated(jar, now)
                  THEN not_authenticated_handler(IMAGE)
                  ELSE IF is_file
                  THEN Response(IMAGE, depends_require_authentication(IMAGE),
                                is_authenticated(jar, now), 200, None, TRUE, {"file"})
                  ELSE Response(IMAGE, depends_require_authentication(IMAGE),
                                is_authenticated(jar, now), 404, None, TRUE, {})
    /\ UNCHANGED <<entry, now, ticks, jar, issued, loggedOut, pipeVars, exVars, fmtVars, vsVars,
                   nameVars, attrVars, sessVars, cfgVars, idxVars, imgVars, loadVars, partVars>>

\* GET /login: to / when authenticated, to the Cognito hosted UI otherwise
LoginRequest ==
    /\ entry = "web"
    /\ wresp = NoResponse
    /\ wresp' = Response(LOGIN, TRUE, is_authenticated(jar, now), 303,
                         IF is_authenticated(jar, now) THEN "/" ELSE "cognito login", TRUE, {})
    /\ UNCHANGED <<entry, now, ticks, jar, issued, loggedOut, pipeVars, exVars, fmtVars, vsVars,
                   nameVars, attrVars, sessVars, cfgVars, idxVars, imgVars, loadVars, partVars>>

\* GET /callback: the code is exchanged for tokens and the cookies are set, or
\* the exchange fails
CallbackRequest ==
    /\ entry = "web"
    /\ wresp = NoResponse
    /\ \/ /\ Cookies(CognitoToken, str_int(now)) \in issued \/ Cardinality(issued) < MaxLogins
          /\ jar' = Cookies(CognitoToken, str_int(now))
          /\ issued' = issued \cup {Cookies(CognitoToken, str_int(now))}
          /\ loggedOut' = FALSE
          /\ wresp' = Response(CALLBACK, FALSE, FALSE, 303, "/", TRUE, {"set cookies"})
       \/ /\ wresp' = Response(CALLBACK, FALSE, FALSE, 303,
                               "/login?error=authentication_failed", TRUE, {})
          /\ UNCHANGED <<jar, issued, loggedOut>>
    /\ UNCHANGED <<entry, now, ticks, pipeVars, exVars, fmtVars, vsVars, nameVars, attrVars, sessVars, cfgVars, idxVars, imgVars, loadVars, partVars>>

\* /logout: the two cookies are deleted
LogoutRequest ==
    /\ entry = "web"
    /\ wresp = NoResponse
    /\ jar' = NoCookies
    /\ loggedOut' = TRUE
    /\ wresp' = Response(LOGOUT, FALSE, FALSE, 303, "cognito logout", TRUE, {"delete cookies"})
    /\ UNCHANGED <<entry, now, ticks, issued, pipeVars, exVars, fmtVars, vsVars, nameVars,
                   attrVars, sessVars, cfgVars, idxVars, imgVars, loadVars, partVars>>

\* the client receives the response and goes on
ClientReceives ==
    /\ entry = "web"
    /\ wresp # NoResponse
    /\ wresp' = NoResponse
    /\ UNCHANGED <<entry, now, ticks, jar, issued, loggedOut, pipeVars, exVars, fmtVars, vsVars,
                   nameVars, attrVars, sessVars, cfgVars, idxVars, imgVars, loadVars, partVars>>

WebNext ==
    \/ AppStarts
    \/ Tick
    \/ ClientSetsCookies
    \/ PageRequest
    \/ FetchRequest
    \/ RefreshConfigRequest
    \/ ImageRequest
    \/ LoginRequest
    \/ CallbackRequest
    \/ LogoutRequest
    \/ ClientReceives

(***************************************************************************)
(* Password sessions: web/auth.py (and the same functions in web/app.py).  *)
(* request.session is the dictionary that SessionMiddleware keeps for the  *)
(* client between its requests.                                            *)
(***************************************************************************)
EmptySession == [keys |-> {}, login_time |-> 0]

\* a session written before login_time existed ("old session without timestamp")
OldSession == [keys |-> {"authenticated"}, login_time |-> 0]

\* an expired session that is left as it is
SessionKeptWhenExpired(sess, time) ==
    IF "authenticated" \notin sess.keys THEN [result |-> FALSE, session |-> sess]
    ELSE IF "login_time" \notin sess.keys THEN [result |-> FALSE, session |-> EmptySession]
    ELSE IF time - sess.login_time > SESSION_EXPIRATION_SECONDS
    THEN [result |-> FALSE, session |-> sess]
    ELSE [result |-> TRUE, session |-> sess]

\* web/auth.py is_authenticated: what it returns and the session it leaves
session_is_authenticated(sess, time) ==
    IF "authenticated" \notin sess.keys THEN [result |-> FALSE, session |-> sess]
    ELSE IF "login_time" \notin sess.keys THEN [result |-> FALSE, session |-> EmptySession]
    ELSE IF time - sess.login_time > SESSION_EXPIRATION_SECONDS
    THEN [result |-> FALSE, session |-> EmptySession]
    ELSE [result |-> TRUE, session |-> sess]

NoOperation ==
    [op |-> None, status |-> 0, result |-> FALSE, before |-> EmptySession, at |-> 0]

SessInit ==
    /\ session = EmptySession
    /\ appPassword = None
    /\ lastLogin = -1
    /\ loggedOutSince = FALSE
    /\ sresp = NoOperation

\* the application starts: APP_PASSWORD is set or not, and the client comes
\* without a session or with an old one
SessionAppStarts ==
    /\ entry = "none"
    /\ entry' = "session"
    /\ appPassword' \in {None, "secret"}
    /\ session' \in {EmptySession, OldSession}
    /\ UNCHANGED <<lastLogin, loggedOutSince, sresp, pipeVars, exVars, fmtVars, vsVars, nameVars,
                   attrVars, webVars, cfgVars, idxVars, imgVars, loadVars, partVars>>

\* POST /login with the password of the form
login_post ==
    /\ entry = "session"
    /\ \E password \in {"secret", "wrong", ""} :
         IF password # appPassword
         THEN /\ sresp' = [op |-> "login", status |-> 401, result |-> FALSE, before |-> session, at |-> now]
              /\ UNCHANGED <<session, lastLogin, loggedOutSince>>
         ELSE /\ session' = [keys |-> {"authenticated", "login_time"}, login_time |-> now]
              /\ lastLogin' = now
              /\ loggedOutSince' = FALSE
              /\ sresp' = [op |-> "login", status |-> 303, result |-> FALSE, before |-> session, at |-> now]
    /\ UNCHANGED <<entry, appPassword, pipeVars, exVars, fmtVars, vsVars, nameVars, attrVars,
                   webVars, cfgVars, idxVars, imgVars, loadVars, partVars>>

\* POST /logout
session_logout ==
    /\ entry = "session"
    /\ session' = EmptySession
    /\ loggedOutSince' = TRUE
    /\ sresp' = [op |-> "logout", status |-> 303, result |-> FALSE, before |-> session, at |-> now]
    /\ UNCHANGED <<entry, appPassword, lastLogin, pipeVars, exVars, fmtVars, vsVars, nameVars,
                   attrVars, webVars, cfgVars, idxVars, imgVars, loadVars, partVars>>

\* a request to a protected route: require_authentication calls is_authenticated
SessionChecked ==
    /\ entry = "session"
    /\ session' = session_is_authenticated(session, now).session
    /\ sresp' = [op |-> "check", status |-> 0,
                 result |-> session_is_authenticated(session, now).result, before |-> session, at |-> now]
    /\ UNCHANGED <<entry, appPassword, lastLogin, loggedOutSince, pipeVars, exVars, fmtVars,
                   vsVars, nameVars, attrVars, webVars, cfgVars, idxVars, imgVars, loadVars, partVars>>

SessNext ==
    \/ SessionAppStarts
    \/ login_post
    \/ session_logout
    \/ SessionChecked

(***************************************************************************)
(* The vector store ID and its cache: config.py.                           *)
(*                                                                         *)
(* The source is the Parameter Store when use_ssm, and else the            *)
(* vector_store_id of the cached AppConfig.  The Parameter Store is shared *)
(* with other processes (the CLI writes it, the web application reads it). *)
(***************************************************************************)
VectorStoreIds == {"vs_1", "vs_2"}

\* the value at the source
source_value(config, parameter) ==
    IF config.use_ssm THEN parameter ELSE config.vector_store_id

\* the lines 71-79 of _get_vector_store_id_cached, the call of ssm.get_parameter
\* failing or not
fetch_vector_store_id(config, parameter, failure) ==
    IF config.use_ssm
    THEN IF failure # None THEN [error |-> failure, value |-> None]
         ELSE [error |-> None, value |-> parameter]
    ELSE IF config.vector_store_id = None THEN [error |-> "ValueError", value |-> None]
         ELSE [error |-> None, value |-> config.vector_store_id]

\* lru_cache(maxsize=1): the cache after a call that found it empty; a call
\* that raises stores nothing
lru_cache(cached, fetched) ==
    IF cached # None THEN cached
    ELSE IF fetched.error # None THEN None
    ELSE fetched.value

\* a cache that is never cleared
CacheKept(cached) == cached

\* _get_vector_store_id_cached.cache_clear()
cache_clear(cached) == None

NoCall == [op |-> None, error |-> None, value |-> None, prev |-> None, source |-> None]

CfgInit ==
    /\ cfg = [use_ssm |-> FALSE, vector_store_id |-> None]
    /\ ssm = "vs_1"
    /\ cache = None
    /\ reads = 0
    /\ okReads = 0
    /\ firstRead = None
    /\ returned = None
    /\ invalidated = "start"
    /\ cret = NoCall

\* get_app_config() loads the configuration
ConfigLoads ==
    /\ entry = "none"
    /\ entry' = "config"
    /\ cfg' \in [use_ssm : BOOLEAN, vector_store_id : {None, "vs_env"}]
    /\ ssm' \in VectorStoreIds
    /\ UNCHANGED <<cache, reads, okReads, firstRead, returned, invalidated, cret, pipeVars,
                   exVars, fmtVars, vsVars, nameVars, attrVars, webVars, sessVars, idxVars, imgVars, loadVars, partVars>>

\* get_vector_store_id()
get_vector_store_id ==
    /\ entry = "config"
    /\ cache # None \/ reads < MaxReads
    /\ \E failure \in {None, "ClientError"} :
         LET fetched == fetch_vector_store_id(cfg, ssm, failure)
             result == IF cache # None THEN [error |-> None, value |-> cache] ELSE fetched
         IN  /\ cache' = lru_cache(cache, fetched)
             /\ reads' = IF cache = None /\ fetched.error # "ValueError" THEN reads + 1 ELSE reads
             /\ okReads' = IF cache = None /\ fetched.error = None THEN okReads + 1 ELSE okReads
             /\ firstRead' = IF cache = None /\ fetched.error = None /\ firstRead = None
                             THEN fetched.value ELSE firstRead
             /\ returned' = IF result.error = None THEN result.value ELSE returned
             /\ cret' = [op |-> "get", error |-> result.error, value |-> result.value,
                         prev |-> returned, source |-> source_value(cfg, ssm)]
    /\ UNCHANGED <<entry, cfg, ssm, invalidated, pipeVars, exVars, fmtVars, vsVars, nameVars,
                   attrVars, webVars, sessVars, idxVars, imgVars, loadVars, partVars>>

\* refresh_vector_store_id(): the cache is cleared and the source is read
refresh_vector_store_id ==
    /\ entry = "config"
    /\ \E failure \in {None, "ClientError"} :
         LET fetched == fetch_vector_store_id(cfg, ssm, failure)
         IN  /\ cache' = lru_cache(cache_clear(cache), fetched)
             /\ reads' = IF fetched.error # "ValueError" THEN 1 ELSE 0
             /\ okReads' = IF fetched.error = None THEN 1 ELSE 0
             /\ firstRead' = fetched.value
             /\ cret' = [op |-> "refresh", error |-> fetched.error, value |-> fetched.value,
                         prev |-> returned, source |-> source_value(cfg, ssm)]
    /\ returned' = None
    /\ invalidated' = "refresh"
    /\ UNCHANGED <<entry, cfg, ssm, pipeVars, exVars, fmtVars, vsVars, nameVars, attrVars,
                   webVars, sessVars, idxVars, imgVars, loadVars, partVars>>

\* update_vector_store_id(new_id): ValueError without use_ssm; put_parameter
\* may fail; the cache is cleared after the parameter was written
update_vector_store_id ==
    /\ entry = "config"
    /\ \E new_id \in VectorStoreIds, failure \in {None, "ClientError"} :
         IF ~cfg.use_ssm \/ failure # None
         THEN /\ cret' = [op |-> "update",
                          error |-> IF ~cfg.use_ssm THEN "ValueError" ELSE failure,
                          value |-> new_id, prev |-> returned,
                          source |-> source_value(cfg, ssm)]
              /\ UNCHANGED <<ssm, cache, reads, okReads, firstRead, returned, invalidated>>
         ELSE /\ ssm' = new_id
              /\ cache' = cache_clear(cache)
              /\ reads' = 0
              /\ okReads' = 0
              /\ firstRead' = None
              /\ returned' = None
              /\ invalidated' = "update"
              /\ cret' = [op |-> "update", error |-> None, value |-> new_id, prev |-> returned,
                          source |-> new_id]
    /\ UNCHANGED <<entry, cfg, pipeVars, exVars, fmtVars, vsVars, nameVars, attrVars, webVars,
                   sessVars, idxVars, imgVars, loadVars, partVars>>

\* another process writes the parameter (the CLI, while the web application runs)
ParameterWritten ==
    /\ entry = "config"
    /\ cfg.use_ssm
    /\ \E new_id \in VectorStoreIds \ {ssm} : ssm' = new_id
    /\ UNCHANGED <<entry, cfg, cache, reads, okReads, firstRead, returned, invalidated, cret,
                   pipeVars, exVars, fmtVars, vsVars, nameVars, attrVars, webVars, sessVars, idxVars, imgVars, loadVars, partVars>>

CfgNext ==
    \/ ConfigLoads
    \/ get_vector_store_id
    \/ refresh_vector_store_id
    \/ update_vector_store_id
    \/ ParameterWritten

(***************************************************************************)
(* add_question_records_to_vector_store: services/vectorstore/main.py and  *)
(* helpers.py.  A record id <<e, n>> stands for the text e-qn.             *)
(***************************************************************************)
\* records with two ids and two texts; the id is a field of its own
IndexRecords ==
    [id : {<<"e1", "1">>, <<"e1", "2">>}, question_number : {"1"}, question_text : {"a", "b"}]

\* _question_record_to_index_text
question_record_to_index_text(record) == <<record.question_text, "\n">>

\* _write_index_files: one file per record id, written in list order
RECURSIVE write_index_files(_, _)
write_index_files(records, files) ==
    IF records = <<>> THEN files
    ELSE write_index_files(
             Tail(records),
             [id \in DOMAIN files \cup {Head(records).id} |->
                 IF id = Head(records).id THEN question_record_to_index_text(Head(records))
                 ELSE files[id]])

\* _attributes_from_record: exam_id is record.id.rsplit("-q", 1)[0]
attributes_from_record(record) ==
    [record_id |-> record.id, exam_id |-> record.id[1],
     question_number |-> record.question_number]

IdxInit ==
    /\ irecs = <<>>
    /\ ifiles = <<>>
    /\ ii = 0
    /\ ipc = "idle"
    /\ ierr = None
    /\ iuploads = <<>>
    /\ iattached = <<>>

\* the call: ValueError for an empty list, else the index files are written
AddRecordsStarts ==
    /\ entry = "none"
    /\ entry' = "index"
    /\ \E n \in 0..MaxRecords : irecs' \in [1..n -> IndexRecords]
    /\ IF irecs' = <<>>
       THEN /\ ipc' = "raised"
            /\ ierr' = "ValueError"
            /\ UNCHANGED <<ifiles, ii>>
       ELSE /\ ifiles' = write_index_files(irecs', <<>>)
            /\ ii' = 1
            /\ ipc' = "loop"
            /\ ierr' = None
    /\ UNCHANGED <<iuploads, iattached, pipeVars, exVars, fmtVars, vsVars, nameVars, attrVars,
                   webVars, sessVars, cfgVars, imgVars, loadVars, partVars>>

\* _save_file_to_openai(file_path=id_to_path[record.id]): the file is read and
\* uploaded, or the call raises
SaveFileToOpenai ==
    /\ entry = "index"
    /\ ipc = "loop"
    /\ \E failure \in {None} \cup RemoteErrors :
         IF failure # None
         THEN /\ ipc' = "raised"
              /\ ierr' = failure
              /\ UNCHANGED iuploads
         ELSE /\ iuploads' = Append(iuploads, [record |-> ii, text |-> ifiles[irecs[ii].id]])
              /\ ipc' = "uploaded"
              /\ UNCHANGED ierr
    /\ UNCHANGED <<entry, irecs, ifiles, ii, iattached, pipeVars, exVars, fmtVars, vsVars,
                   nameVars, attrVars, webVars, sessVars, cfgVars, imgVars, loadVars, partVars>>

\* _save_file_to_vector_store(file_id, attributes=_attributes_from_record(record))
SaveFileToVectorStore ==
    /\ entry = "index"
    /\ ipc = "uploaded"
    /\ \E failure \in {None} \cup RemoteErrors :
         IF failure # None
         THEN /\ ipc' = "raised"
              /\ ierr' = failure
              /\ UNCHANGED <<iattached, ii>>
         ELSE /\ iattached' = Append(iattached,
                                     [record |-> ii, text |-> iuploads[Len(iuploads)].text,
                                      attributes |-> attributes_from_record(irecs[ii]),
                                      uploads |-> Len(iuploads)])
              /\ ii' = ii + 1
              /\ ipc' = IF ii = Len(irecs) THEN "done" ELSE "loop"
              /\ UNCHANGED ierr
    /\ UNCHANGED <<entry, irecs, ifiles, iuploads, pipeVars, exVars, fmtVars, vsVars, nameVars,
                   attrVars, webVars, sessVars, cfgVars, imgVars, loadVars, partVars>>

IdxNext ==
    \/ AddRecordsStarts
    \/ SaveFileToOpenai
    \/ SaveFileToVectorStore

(***************************************************************************)
(* The image route: web/app/api/v1.py image, paths.exam_asset_under_root.  *)
(* A path is the sequence of its segments from the root of the file        *)
(* system.                                                                 *)
(***************************************************************************)
\* app.state.exams_root, resolved by create_app
exams_root == <<"data", "exams">>

\* the file system: regular files, and a symbolic link under the exams root
\* that points to a file outside it
RegularFiles ==
    { <<"data", "exams", "e1", "p.png">>, <<"data", "secret.txt">>,
      <<"data", "exams2", "p.png">> }

Symlinks == [link : {<<"data", "exams", "e1", "link">>}, target : {<<"data", "secret.txt">>}]

\* the segments a request may name
SegmentNames == {"..", "data", "exams", "exams2", "e1", "p.png", "link", "secret.txt"}

\* exams_root / exam_id / rel_path: an absolute rel_path replaces what is before it
exam_asset_under_root(root, exam_id, rel_path) ==
    IF rel_path.absolute THEN rel_path.segments
    ELSE root \o <<exam_id>> \o rel_path.segments

\* Path.resolve(): .. goes to the parent, a symbolic link is followed
RECURSIVE resolve(_, _)
resolve(done, rest) ==
    IF rest = <<>> THEN done
    ELSE IF Head(rest) = ".."
    THEN resolve(IF done = <<>> THEN <<>> ELSE SubSeq(done, 1, Len(done) - 1), Tail(rest))
    ELSE LET next == Append(done, Head(rest))
         IN  IF \E l \in Symlinks : l.link = next
             THEN resolve((CHOOSE l \in Symlinks : l.link = next).target, Tail(rest))
             ELSE resolve(next, Tail(rest))

\* a test that every path passes
RelativeToAnything(path, root) == TRUE

\* candidate.relative_to(exams_root) does not raise
relative_to(path, root) ==
    /\ Len(path) >= Len(root)
    /\ SubSeq(path, 1, Len(root)) = root

\* lines 99-107 of image: the status and the file of the FileResponse
image(root, exam_id, rel_path) ==
    LET candidate == resolve(<<>>, exam_asset_under_root(root, exam_id, rel_path))
    IN  IF ~relative_to(candidate, root) THEN [status |-> 404, file |-> <<>>]
        ELSE IF candidate \notin RegularFiles THEN [status |-> 404, file |-> <<>>]
        ELSE [status |-> 200, file |-> candidate]

ImgInit ==
    /\ mreq = [exam_id |-> "", rel_path |-> [absolute |-> FALSE, segments |-> <<>>]]
    /\ mpc = "idle"
    /\ mresp = [status |-> 0, file |-> <<>>]

\* an authenticated GET /api/v1/image/{exam_id}/{rel_path:path}
ImageCalled ==
    /\ entry = "none"
    /\ entry' = "image"
    /\ \E exam_id \in {"e1", "e2", ".."}, absolute \in BOOLEAN, n \in 1..MaxSegments :
         \E segments \in [1..n -> SegmentNames] :
            mreq' = [exam_id |-> exam_id,
                     rel_path |-> [absolute |-> absolute, segments |-> segments]]
    /\ mpc' = "called"
    /\ UNCHANGED <<mresp, pipeVars, exVars, fmtVars, vsVars, nameVars, attrVars, webVars,
                   sessVars, cfgVars, idxVars, loadVars, partVars>>

\* the handler answers
ImageAnswered ==
    /\ entry = "image"
    /\ mpc = "called"
    /\ mresp' = image(exams_root, mreq.exam_id, mreq.rel_path)
    /\ mpc' = "answered"
    /\ UNCHANGED <<entry, mreq, pipeVars, exVars, fmtVars, vsVars, nameVars, attrVars, webVars,
                   sessVars, cfgVars, idxVars, loadVars, partVars>>

ImgNext ==
    \/ ImageCalled
    \/ ImageAnswered

(***************************************************************************)
(* QuestionRecord.from_yaml and QuestionRecord.from_exam_dir               *)
(* (pydantic_models.py).  A path is its name, a sequence of character      *)
(* codes; a YAML document is the sequence of its items, and an exam        *)
(* directory the sequence of its *.yaml files in the order of their names. *)
(***************************************************************************)
\* Path.suffix: the last suffix of the name, with its dot
suffix(name) ==
    LET dots == {i \in 2..(Len(name) - 1) : name[i] = 46}
    IN  IF dots = {} THEN <<>>
        ELSE SubSeq(name, CHOOSE i \in dots : \A j \in dots : j <= i, Len(name))

\* ".yaml"
yaml_suffix == <<46, 121, 97, 109, 108>>

\* the exam ids of the records: vw-1025-a-18-1-o and vw-1025-a-18-2-o
LoadExamIds == {stem(exam_file_name(<<118, 119>>, 2018, t)) : t \in 1..2}

\* the names of the paths: an exam id or xx, with .yaml, with .yml or bare
LoadNames ==
    {id \o sfx : id \in LoadExamIds \cup {<<120, 120>>},
                 sfx \in {yaml_suffix, <<46, 121, 109, 108>>, <<>>}}

\* an item of a YAML document: a mapping that validates as a QuestionRecord
\* of an exam, a value that does not validate, or text that is not YAML
LoadItems ==
    [kind : {"record"}, exam_id : LoadExamIds]
        \cup [kind : {"invalid", "yaml_error"}, exam_id : {<<>>}]

\* what is at a path: nothing, a file or a directory; the top level of a file
\* is a list, null or a mapping
LoadDisks ==
    [kind : {"missing"}, shape : {"null"}, data : {<<>>}]
        \cup [kind : {"file"}, shape : {"null", "mapping"}, data : {<<>>}]
        \cup [kind : {"file", "dir"}, shape : {"list"},
              data : UNION {[1..n -> LoadItems] : n \in 0..MaxLoaded}]

\* yaml.safe_load of a document with these items
safe_load(items) ==
    IF \E i \in 1..Len(items) : items[i].kind = "yaml_error"
    THEN [error |-> "YAMLError"] ELSE [error |-> None]

\* cls.model_validate(item): the record, of which the exam id matters here
model_validate(item) ==
    IF item.kind = "record"
    THEN [error |-> None, record |-> [exam |-> [id |-> item.exam_id]]]
    ELSE [error |-> ValidationError, record |-> [exam |-> [id |-> <<>>]]]

\* the exam id of the first record alone
first_exam_id(records) == {records[1].exam.id}

\* {record.exam.id for record in records}
exam_ids(records) == {records[i].exam.id : i \in 1..Len(records)}

\* lines 138-150 and 195-207: the two checks on the exam ids of the records
check_exam_ids(records, exam) ==
    IF Cardinality(exam_ids(records)) > 1 THEN [error |-> "ValueError", records |-> <<>>]
    ELSE IF records[1].exam.id # exam.id THEN [error |-> "ValueError", records |-> <<>>]
    ELSE [error |-> None, records |-> records]

\* QuestionRecord.from_yaml(yaml_path)
from_yaml(name, disk) ==
    LET exam == from_file_path(name)
        validated == [i \in 1..Len(disk.data) |-> model_validate(disk.data[i])]
    IN  IF disk.kind = "missing" THEN [error |-> "FileNotFoundError", records |-> <<>>]
        ELSE IF disk.kind # "file" THEN [error |-> "ValueError", records |-> <<>>]
        ELSE IF suffix(name) # yaml_suffix THEN [error |-> "ValueError", records |-> <<>>]
        ELSE IF exam.error # None THEN [error |-> exam.error, records |-> <<>>]
        ELSE IF safe_load(disk.data).error # None
        THEN [error |-> safe_load(disk.data).error, records |-> <<>>]
        ELSE IF disk.shape = "null" \/ (disk.shape = "list" /\ disk.data = <<>>)
        THEN [error |-> "ValueError", records |-> <<>>]
        ELSE IF disk.shape # "list" THEN [error |-> "ValueError", records |-> <<>>]
        ELSE IF \E i \in 1..Len(validated) : validated[i].error # None
        THEN [error |-> "ValueError", records |-> <<>>]
        ELSE check_exam_ids([i \in 1..Len(validated) |-> validated[i].record], exam.value)

\* QuestionRecord.from_exam_dir(exam_dir): the files are loaded and validated
\* one after the other
QuestionRecord_from_exam_dir(name, disk) ==
    LET exam == from_file_path(name)
        validated == [i \in 1..Len(disk.data) |-> model_validate(disk.data[i])]
        bad == {i \in 1..Len(disk.data) : disk.data[i].kind # "record"}
        firstBad == CHOOSE i \in bad : \A j \in bad : i <= j
    IN  IF disk.kind = "missing" THEN [error |-> "FileNotFoundError", records |-> <<>>]
        ELSE IF disk.kind # "dir" THEN [error |-> "ValueError", records |-> <<>>]
        ELSE IF exam.error # None THEN [error |-> exam.error, records |-> <<>>]
        ELSE IF disk.data = <<>> THEN [error |-> "ValueError", records |-> <<>>]
        ELSE IF bad # {}
        THEN [error |-> IF disk.data[firstBad].kind = "yaml_error"
                        THEN "YAMLError" ELSE "ValueError",
              records |-> <<>>]
        ELSE check_exam_ids([i \in 1..Len(validated) |-> validated[i].record], exam.value)

NoLoad == [fn |-> "none", name |-> <<>>,
           disk |-> [kind |-> "missing", shape |-> "null", data |-> <<>>]]

LoadInit ==
    /\ lreq = NoLoad
    /\ lpc = "idle"
    /\ lret = [error |-> None, records |-> <<>>]

\* one of the two loaders is called on a path
LoadCalled ==
    /\ entry = "none"
    /\ entry' = "load"
    /\ \E fn \in {"from_yaml", "from_exam_dir"}, name \in LoadNames, disk \in LoadDisks :
         lreq' = [fn |-> fn, name |-> name, disk |-> disk]
    /\ lpc' = "called"
    /\ UNCHANGED <<lret, pipeVars, exVars, fmtVars, vsVars, nameVars, attrVars, webVars, sessVars, cfgVars, idxVars, imgVars, partVars>>

\* from_yaml returns the records or raises
FromYamlReturns ==
    /\ entry = "load"
    /\ lpc = "called"
    /\ lreq.fn = "from_yaml"
    /\ lret' = from_yaml(lreq.name, lreq.disk)
    /\ lpc' = IF lret'.error = None THEN "returned" ELSE "raised"
    /\ UNCHANGED <<entry, lreq, pipeVars, exVars, fmtVars, vsVars, nameVars, attrVars, webVars, sessVars, cfgVars, idxVars, imgVars, partVars>>

\* from_exam_dir returns the records or raises
FromExamDirReturns ==
    /\ entry = "load"
    /\ lpc = "called"
    /\ lreq.fn = "from_exam_dir"
    /\ lret' = QuestionRecord_from_exam_dir(lreq.name, lreq.disk)
    /\ lpc' = IF lret'.error = None THEN "returned" ELSE "raised"
    /\ UNCHANGED <<entry, lreq, pipeVars, exVars, fmtVars, vsVars, nameVars, attrVars, webVars, sessVars, cfgVars, idxVars, imgVars, partVars>>

LoadNext ==
    \/ LoadCalled
    \/ FromYamlReturns
    \/ FromExamDirReturns


(***************************************************************************)
(* AgentMultipartQuestionOutput and MultipartQuestionPart                  *)
(* (pydantic_models.py).  A label is null or a text, the sequence of its   *)
(* character codes: a is 97, z is 122, { is 123.  The text of a part is    *)
(* identified by a number.                                                 *)
(***************************************************************************)
\* label: str | None = None
NullLabel == [null |-> TRUE, text |-> <<>>]

\* the labels a part is given: none, a, b, x or the empty text
GivenLabels ==
    {NullLabel} \cup [null : {FALSE}, text : {<<97>>, <<98>>, <<120>>, <<>>}]

\* MultipartQuestionPart of the i-th text
MultipartQuestionPart(i, label, points) ==
    [text |-> i, label |-> label, points |-> points]

\* the label and the points of a part that varies
VariedParts == [label : GivenLabels, points : {0, 2}]

\* a list of n parts, each with its own text
PartList(n, varied) ==
    [i \in 1..n |-> IF i <= MaxVaried
                    THEN MultipartQuestionPart(i, varied[i].label, varied[i].points)
                    ELSE MultipartQuestionPart(i, NullLabel, 0)]

\* chr(code)
chr(code) == [null |-> FALSE, text |-> <<code>>]

\* auto_generate_part_labels: enumerate counts from 0, the sequence from 1
auto_generate_part_labels(parts) ==
    [k \in 1..Len(parts) |->
        IF parts[k].label.null
        THEN [parts[k] EXCEPT !.label = chr(97 + (k - 1))]
        ELSE parts[k]]

PartInit ==
    /\ qin = <<>>
    /\ qout = <<>>
    /\ qpc = "idle"

\* a multipart question is built from a list of parts
MultipartGiven ==
    /\ entry = "none"
    /\ entry' = "multipart"
    /\ \E n \in 0..MaxParts, varied \in [1..MaxVaried -> VariedParts] :
         qin' = PartList(n, varied)
    /\ qpc' = "given"
    /\ UNCHANGED <<qout, pipeVars, exVars, fmtVars, vsVars, nameVars, attrVars, webVars, sessVars, cfgVars, idxVars, imgVars, loadVars>>

\* the model validator runs after the fields are validated
MultipartValidated ==
    /\ entry = "multipart"
    /\ qpc = "given"
    /\ qout' = auto_generate_part_labels(qin)
    /\ qpc' = "validated"
    /\ UNCHANGED <<entry, qin, pipeVars, exVars, fmtVars, vsVars, nameVars, attrVars, webVars, sessVars, cfgVars, idxVars, imgVars, loadVars>>

PartNext ==
    \/ MultipartGiven
    \/ MultipartValidated


Init ==
    /\ entry = "none"
    /\ PipeInit
    /\ ExInit
    /\ FmtInit
    /\ VsInit
    /\ NameInit
    /\ AttrInit
    /\ WebInit
    /\ SessInit
    /\ CfgInit
    /\ IdxInit
    /\ ImgInit
    /\ LoadInit
    /\ PartInit

Next ==
    \/ PipelineNext
    \/ ExtractNext
    \/ FormatNext
    \/ FetchNext
    \/ ParseNext
    \/ AttrNext
    \/ WebNext
    \/ SessNext
    \/ CfgNext
    \/ IdxNext
    \/ ImgNext
    \/ LoadNext
    \/ PartNext

Spec == Init /\ [][Next]_vars

(***************************************************************************)
(* Agent pipeline runner: claims.                                          *)
(***************************************************************************)
\* strictly increasing maps of 1..n into 1..m: the ways to pick n of m places in order
Increasing(n, m) ==
    {f \in [1..n -> 1..m] : \A i, j \in 1..n : i < j => f[i] < f[j]}

\* C1: run_agent_pipeline with an event factory returns the complete input
\* history, events the agent may not see included, followed by exactly one new
\* event built from the output; without a factory it returns the input history.
C1_ReturnedHistory ==
    ppc = "returned" =>
        IF frame.factory
        THEN /\ Len(heap[ret.history]) = Len(frame.before) + 1
             /\ SubSeq(heap[ret.history], 1, Len(frame.before)) = frame.before
             /\ heap[ret.history][Len(frame.before) + 1] = from_output(ret.output)
        ELSE heap[ret.history] = frame.before

\* a call with a factory returned, on a history holding an event its agent may not see
C1_Witness ==
    /\ ppc = "returned"
    /\ frame.factory
    /\ \E i \in 1..Len(frame.before) :
         frame.before[i].type \notin agent_name_to_event_mapping(frame.agent)

\* C2: the event log is append-only: every history that was passed in or
\* returned earlier still holds exactly the events it held then.
C2_HistoriesNeverMutated ==
    \A k \in known : heap[k.id] = k.content

\* three histories are known, the last one returned by a pipeline run that appended
C2_Witness ==
    /\ ppc = "returned"
    /\ frame.factory
    /\ Cardinality(known) >= 3

\* C3: the input handed to the model is built from exactly the events whose
\* type the registry allows the agent, in their original order: none dropped,
\* none of another type let through.
C3_ModelInputIsAllowedEvents ==
    ppc = "calling" =>
        /\ \E pick \in Increasing(Len(sent.text), Len(frame.before)) :
             /\ \A i \in 1..Len(sent.text) : sent.text[i] = render(frame.before[pick[i]])
             /\ \A j \in 1..Len(frame.before) :
                  (frame.before[j].type \in agent_name_to_event_mapping(frame.agent))
                      <=> (\E i \in 1..Len(sent.text) : pick[i] = j)
        /\ frame.agent \in {IMAGES_TO_QUESTION_AGENT, FORMAT_MULTIPART_QUESTION_AGENT} =>
             \A i \in 1..Len(sent.text) : sent.text[i][1] # QuestionEvent

\* the images-to-question agent is called on a history with a QuestionEvent
\* between two user messages: the two messages are the input
C3_Witness ==
    /\ ppc = "calling"
    /\ frame.agent = IMAGES_TO_QUESTION_AGENT
    /\ Len(frame.before) = 3
    /\ frame.before[2].type = QuestionEvent
    /\ Len(sent.text) = 2

\* C4: when the remote call fails the error reaches the caller unchanged, the
\* call was made once, no event was created or appended and the caller's
\* history is as it was.
C4_RemoteFailurePropagates ==
    ppc = "raised" =>
        /\ ret.error \in RemoteErrors
        /\ ret.error = ret.remote
        /\ runnerCalls = 1
        /\ created = 0
        /\ Len(heap) = frame.lists
        /\ hist = frame.history
        /\ heap[hist] = frame.before

\* a run with an event factory on a non-empty history failed
C4_Witness ==
    /\ ppc = "raised"
    /\ frame.factory
    /\ frame.before # <<>>

(***************************************************************************)
(* Extraction batch: claims.                                               *)
(***************************************************************************)
\* the questions processed so far that ended without an error
Succeeded == {j \in 1..Len(xout) : xout[j].error = None}

\* the writes of question j
WritesOf(j) == {w \in 1..Len(xwrites) : xwrites[w].question = j}

\* C5: at most one remote request is in flight per invocation:
\* run_agent_pipeline calls the model once, and the batch loop issues the
\* request of a question only when every earlier question has completed and
\* the file of each that succeeded is written.
C5_OneRequestInFlight ==
    /\ inflight <= 1
    /\ runnerCalls <= 1
    /\ Cardinality(xflight) <= 1
    /\ \A i \in xflight :
         /\ i = xi
         /\ Len(xout) = i - 1
         /\ \A j \in 1..(i - 1) :
              /\ xout[j].error = None \/ xout[j].caught
              /\ xout[j].error = None =>
                   \E w \in WritesOf(j) : xwrites[w].file \in DOMAIN outFiles

\* the request of the third question is in flight after one question was
\* written and one was skipped
C5_Witness ==
    /\ xflight = {3}
    /\ xout[1].error = None
    /\ xout[2].caught

C7_OneFilePerQuestion ==
    /\ Cardinality(DOMAIN outFiles) = Cardinality(Succeeded)
    /\ \A v, w \in 1..Len(xwrites) :
         v # w => /\ xwrites[v].file # xwrites[w].file
                  /\ xwrites[v].record.id # xwrites[w].record.id

\* the last write to file f
LastWrite(f) ==
    CHOOSE w \in 1..Len(xwrites) :
        /\ xwrites[w].file = f
        /\ \A v \in 1..Len(xwrites) : xwrites[v].file = f => v <= w

\* C8: a remote-API error of the transcription call is not caught: it leaves
\* process_exam_dir as it was raised, no later question is processed, nothing
\* is retried, and the files written for earlier questions are as written.
C8_RemoteErrorAbortsBatch ==
    \A j \in 1..Len(xout) :
        xout[j].error \in RemoteErrors =>
            /\ ~xout[j].caught
            /\ xpc = "raised"
            /\ xerr = xout[j].error
            /\ j = Len(xout)
            /\ xi = j
            /\ xflight = {}
            /\ \A k \in 1..Len(xqs) : xcalls[k] = IF k <= j THEN 1 ELSE 0
            /\ \A w \in 1..Len(xwrites) : xwrites[w].question \in Succeeded
            /\ DOMAIN outFiles = {xwrites[w].file : w \in 1..Len(xwrites)}
            /\ \A f \in DOMAIN outFiles : outFiles[f] = xwrites[LastWrite(f)].record

\* the transcription of the second of three questions failed after the first
\* was written
C8_Witness ==
    /\ xpc = "raised"
    /\ xerr \in RemoteErrors
    /\ Len(xqs) = 3
    /\ Len(xout) = 2
    /\ DOMAIN outFiles # {}

(***************************************************************************)
(* Formatting batch: claims.                                               *)
(***************************************************************************)
\* C9 as stated: a remote-API error of the formatting call leaves
\* format_questions as an uncaught exception.
C9_FormatRemoteErrorSurfaces ==
    \A j \in 1..Len(fout) :
        fout[j].error \in RemoteErrors => fpc = "raised" /\ ferr = fout[j].error

\* C9 as amended: a remote-API error of the formatting call is caught by the
\* except Exception of format_questions: the question gets no file, the loop
\* goes on with the next record, and the error never leaves format_questions.
C9_FormatRemoteErrorSwallowed ==
    /\ \A j \in 1..Len(fout) :
         fout[j].error \in RemoteErrors =>
             /\ fout[j].caught
             /\ <<fout[j].exam_id, fout[j].question>> \notin fmtFiles
             /\ j < Len(fout) \/ fpc \in {"loop", "awaiting", "done"}
    /\ ferr \notin RemoteErrors
    /\ fpc = "done" =>
         Len(fout) = Cardinality({<<e, r>> \in (1..Len(fdata)) \X (1..MaxRecords) :
                                     r <= fdata[e].records})

\* a batch ended normally although the formatting call of its first record
\* failed remotely; the record after it was written
C9_Witness ==
    /\ fpc = "done"
    /\ Len(fout) >= 2
    /\ fout[1].error \in RemoteErrors
    /\ fout[2].error = None

(***************************************************************************)
(* Vector-store fetch: claims.                                             *)
(***************************************************************************)
\* C10: vectorstore_fetch selects one of the hits the search returned, the
\* first one with best=True and some element of the list otherwise, and the
\* exam_id, record_id, score and image lists of the result all come from it.
C10_FetchSelectsOneHit ==
    vpc = "returned" =>
        \E k \in 1..Len(vresults) :
            /\ vreq.best => k = 1
            /\ "exam_id" \in vresults[k].keys
            /\ vret.exam_id = vresults[k].val.exam_id
            /\ vret.record_id =
                 (IF "record_id" \in vresults[k].keys THEN vresults[k].val.record_id ELSE None)
            /\ vret.score = vresults[k].score
            /\ vret.page_images =
                 (IF "page_images" \in vresults[k].keys
                  THEN json_loads(vresults[k].val.page_images).value ELSE <<>>)
            /\ vret.figure_images =
                 (IF "figure_images" \in vresults[k].keys
                  THEN json_loads(vresults[k].val.figure_images).value ELSE <<>>)

\* a best fetch returned the first of two hits of different exams
C10_Witness ==
    /\ vpc = "returned"
    /\ vreq.best
    /\ Len(vresults) = 2
    /\ vresults[2].val.exam_id # vresults[1].val.exam_id
    /\ vret.exam_id = vresults[1].val.exam_id
    /\ vret.page_images = <<p1, p2>>

(***************************************************************************)
(* Exam folders: claims.                                                   *)
(***************************************************************************)
\* the exam folder given to process_exam_dir was rejected by from_exam_dir
ExamRejected ==
    /\ entry = "extract"
    /\ xpc = "raised"
    /\ xerr = ValidationError
    /\ xout = <<>>

\* C11: from_exam_dir raises a validation error for every exam directory that
\* holds a subdirectory whose name is not q followed by digits; it succeeds
\* only when every subdirectory is a question folder.
C11_ExtraDirectoryRejected ==
    entry = "extract" =>
        ((\E d \in xexam.dirs : ~fullmatch_q_digits(d.name)) => ExamRejected)

\* an exam folder whose question folders all hold pages was rejected for the
\* folder x1 next to them
C11_Witness ==
    /\ ExamRejected
    /\ \E d \in xexam.dirs : ~fullmatch_q_digits(d.name)
    /\ \E d \in xexam.dirs : fullmatch_q_digits(d.name)
    /\ \A d \in xexam.dirs : fullmatch_q_digits(d.name) => d.pages

\* C12: an exam folder in which two question folders carry the same question
\* number is never accepted: the question numbers of an accepted structure are
\* pairwise distinct.
C12_AcceptedNumbersDistinct ==
    (entry = "extract" /\ from_exam_dir(xexam.dirs).error = None) =>
        LET questions == from_exam_dir(xexam.dirs).questions
        IN  \A i, j \in 1..Len(questions) :
                i # j => get_question_number(questions[i].number)
                             # get_question_number(questions[j].number)

(***************************************************************************)
(* Exam.from_file_path: claims.                                            *)
(***************************************************************************)
\* the Exam that the acronym, year and tijdvak of the file name stand for
ExamOfName ==
    [id |-> stem(nfile),
     level |-> pdf_acronym_to_level_mapping[str_lower(nin.acronym)],
     year |-> nin.year,
     tijdvak |-> nin.tijdvak]

\* C13 as stated: for every known acronym in any letter case, every year and
\* every tijdvak, from_file_path of the file name built from them yields the
\* level of the acronym, that year and that tijdvak, and the stem as id.
C13_FileNameRoundTrip ==
    (npc # "called" /\ entry = "parse"
        /\ str_lower(nin.acronym) \in DOMAIN pdf_acronym_to_level_mapping) =>
            (npc = "returned" /\ nret.error = None /\ nret.value = ExamOfName)

\* C13 as amended: the same for the years 1969 to 2068, the years that the
\* two digits of a file name stand for.
C13_FileNameRoundTripInWindow ==
    (npc # "called" /\ entry = "parse"
        /\ str_lower(nin.acronym) \in DOMAIN pdf_acronym_to_level_mapping
        /\ nin.year \in 1969..2068) =>
            (npc = "returned" /\ nret.error = None /\ nret.value = ExamOfName)

\* Hv-1025-a-99-10-o.pdf was parsed as the HAVO exam of 1999, tijdvak 10
C13_Witness ==
    /\ npc = "returned"
    /\ nin = [acronym |-> <<72, 118>>, year |-> 1999, tijdvak |-> 10]
    /\ nret.value.level = "HAVO"
    /\ nret.value.year = 1999
    /\ nret.value.tijdvak = 10

(***************************************************************************)
(* Vector-store attributes: claims.                                        *)
(***************************************************************************)
\* C14: decoding the page_images, figure_images and source_images attributes
\* that attributes_for_vector_store produced gives back the lists of the
\* record, element by element in order, a list that is None being decoded to
\* the empty list.
C14_AttributeRoundTrip ==
    apc = "decoded" =>
        /\ adec.page_images = [error |-> None, value |-> or_empty(arec.page_images)]
        /\ adec.figure_images = [error |-> None, value |-> or_empty(arec.figure_images)]
        /\ adec.source_images = [error |-> None, value |-> arec.source_images]

\* the list of the paths \" and , came back from the page_images attribute,
\* and the figure_images that were None came back empty
C14_Witness ==
    /\ apc = "decoded"
    /\ arec.page_images = SomeList(<< <<92, 34>>, <<44>> >>)
    /\ arec.figure_images.none
    /\ adec.page_images.value = << <<92, 34>>, <<44>> >>
    /\ adec.figure_images.value = <<>>

\* the endpoints that the specification lists as protected
ProtectedEndpoints == {INDEX, UNITCIRCLE, DERIVATIVES, FETCH, REFRESH_CONFIG, IMAGE}

\* the path begins with the segments of the prefix
startswith(segments, prefix) ==
    /\ Len(segments) >= Len(prefix)
    /\ SubSeq(segments, 1, Len(prefix)) = prefix

\* C15: every URL in page_images and figure_images of the JSON that POST
\* /api/v1/fetch returns starts with /api/v1/image/, the route that serves
\* the images.
C15_ImageUrlsUnderApiV1 ==
    (wresp.endpoint = FETCH /\ wresp.status = 200) =>
        /\ \A i \in 1..Len(wresp.body.page_images) :
             startswith(wresp.body.page_images[i].segments, image_route)
        /\ \A i \in 1..Len(wresp.body.figure_images) :
             startswith(wresp.body.figure_images[i].segments, image_route)

\* C16: a request without a valid session to any protected endpoint is
\* answered with a 303 redirect to /login, and the handler body does not run:
\* no search, no configuration refresh, no file served, no page rendered.
C16_UnauthenticatedRedirected ==
    (wresp.endpoint \in ProtectedEndpoints /\ ~is_authenticated(jar, now)) =>
        /\ wresp.status = 303
        /\ wresp.location = "/login"
        /\ ~wresp.ran
        /\ wresp.effects = {}

\* an image was requested with the cookies of a session that has expired, and
\* the request was redirected
C16_Witness ==
    /\ wresp.endpoint = IMAGE
    /\ jar.id_token = CognitoToken
    /\ jar \in issued
    /\ ~is_authenticated(jar, now)
    /\ wresp.status = 303

\* C17: an authenticated POST /api/v1/fetch with a non-empty query and
\* max_results in 1..20, whose search returned a hit with its formatted file,
\* returns JSON: the dictionary vectorstore_fetch returned has every key the
\* handler reads from it.
C17_FetchReturnsJson ==
    (/\ wresp.endpoint = FETCH
     /\ wresp.authenticated
     /\ ~wresp.patched
     /\ strip(wresp.payload.query) # <<>>
     /\ wresp.payload.max_results \in 1..20
     /\ "search" \in wresp.effects
     /\ wresp.search.error = None) =>
        /\ wresp.status = 200
        /\ {"exam_id", "question_number", "page_images", "figure_images"}
               \subseteq DOMAIN wresp.search.value

\* the text is a decimal number
DecimalNumber(text) == text # <<>> /\ \A i \in 1..Len(text) : text[i] \in 48..57

\* C18: is_authenticated is true exactly when both cookies are present, the
\* login_time is a number, at most SESSION_EXPIRATION_SECONDS have passed
\* since it, and the id_token decodes as a JWT; in every other case it is
\* false.
C18_AuthenticatedExactlyWhen ==
    (wresp.checked /\ wresp.endpoint \in ProtectedEndpoints \cup {LOGIN}) =>
        (wresp.authenticated <=>
            /\ {"id_token", "login_time"} \subseteq jar.keys
            /\ DecimalNumber(jar.login_time)
            /\ now - int_digits(jar.login_time, 0) <= SESSION_EXPIRATION_SECONDS
            /\ jwt_decode(jar.id_token).error = None)

\* C19: after the client called logout, every request of that client to a
\* protected endpoint is unauthenticated until a new login succeeds.
C19_LoggedOutStaysOut ==
    (loggedOut /\ wresp.checked /\ wresp.endpoint \in ProtectedEndpoints) =>
        ~wresp.authenticated

\* C20: a request is authenticated only with the cookies that a successful
\* /callback set in the last 24 hours.
C20_OnlyCallbackCookiesAuthenticate ==
    (wresp.checked /\ wresp.authenticated) =>
        /\ jar \in issued
        /\ now - int_digits(jar.login_time, 0) <= SESSION_EXPIRATION_SECONDS

C22_CacheCoherent ==
    /\ reads <= 1
    /\ (cret.op = "get" /\ cret.error = None /\ cret.prev # None) => cret.value = cret.prev
    /\ (cret.op = "get" /\ cret.error = None /\ cret.prev = None /\ invalidated # "start") =>
           cret.value = cret.source

\* C22, amended: between two invalidations at most one read of the source
\* returns (a read that raises is not cached and the next call reads again)
\* and the get_vector_store_id calls that return give the same value; after
\* an invalidation the next get_vector_store_id returns the value of the
\* first read that returned since: the one refresh_vector_store_id made, and
\* after a successful update_vector_store_id a read of its own, which gives
\* the value stored at the source at that moment.
C22_CacheCoherentReads ==
    /\ okReads <= 1
    /\ (cret.op = "get" /\ cret.error = None /\ cret.prev # None) => cret.value = cret.prev
    /\ (cret.op = "get" /\ cret.error = None /\ cret.prev = None /\ invalidated # "start") =>
           /\ cret.value = firstRead
           /\ invalidated = "update" => cret.value = cret.source

\* after a refresh another process wrote the parameter, and the next
\* get_vector_store_id returned the value the refresh had read
C22_Witness ==
    /\ cret.op = "get"
    /\ cret.error = None
    /\ cret.prev = None
    /\ invalidated = "refresh"
    /\ cret.value = firstRead
    /\ cret.value # cret.source

\* C23: the records are attached in list order, each after the upload of its
\* file; the file attached for a record holds that record's own text and
\* carries that record's own attributes; an empty list raises ValueError
\* before any file is written or uploaded; an error on record k leaves the
\* records before k attached and none after.
C23_OwnTextAttachedInOrder ==
    /\ \A j \in 1..Len(iattached) :
         /\ iattached[j].record = j
         /\ iattached[j].uploads = j
         /\ iattached[j].text = question_record_to_index_text(irecs[j])
         /\ iattached[j].attributes.record_id = irecs[j].id
         /\ iattached[j].attributes.question_number = irecs[j].question_number
    /\ (ipc # "idle" /\ irecs = <<>>) =>
         (ipc = "raised" /\ ierr = "ValueError" /\ ifiles = <<>> /\ iuploads = <<>>)
    /\ (ipc = "raised" /\ irecs # <<>>) => Len(iattached) = ii - 1
    /\ ipc = "done" => Len(iattached) = Len(irecs)

\* C24: when the search returns no hits, or the selected hit has no
\* question_number attribute or no exam_id attribute, vectorstore_fetch raises
\* ValueError, no formatted-question file has been read and no dictionary is
\* returned.
C24_FetchRejectsIncompleteHit ==
    (/\ vpc \in {"returned", "raised"}
     /\ vreq.api_key
     /\ verr \notin RemoteErrors
     /\ \/ vresults = <<>>
        \/ "question_number" \notin vresults[vsel].keys
        \/ "exam_id" \notin vresults[vsel].keys) =>
        /\ vpc = "raised"
        /\ verr = "ValueError"
        /\ vreads = <<>>
        /\ vret = None

\* a random fetch selected the second of two hits, which has no exam_id, while
\* the first hit was complete
C24_Witness ==
    /\ vpc = "raised"
    /\ ~vreq.best
    /\ Len(vresults) = 2
    /\ vsel = 2
    /\ vresults[1].keys = AttributeKeys
    /\ "question_number" \in vresults[2].keys
    /\ "exam_id" \notin vresults[2].keys
    /\ verr = "ValueError"
    /\ vreads = <<>>

\* C25: POST /api/v1/fetch answers 400 to a query that is empty or white
\* space only and to a max_results below 1 or above 20, without a search and
\* without reading a formatted question; every search it makes is given the
\* query without the white space around it and a max_results in 1..20.
C25_FetchValidatesPayload ==
    (wresp.endpoint = FETCH /\ wresp.ran) =>
        /\ (\/ \A i \in 1..Len(wresp.payload.query) : wresp.payload.query[i] \in {9, 10, 32}
            \/ wresp.payload.max_results < 1
            \/ wresp.payload.max_results > 20) =>
               /\ wresp.status = 400
               /\ wresp.effects = {}
               /\ wresp.search = NoSearch
        /\ "search" \in wresp.effects =>
               /\ wresp.searched.max_results \in 1..20
               /\ wresp.searched.query # <<>>
               /\ Head(wresp.searched.query) \notin {9, 10, 32}
               /\ wresp.searched.query[Len(wresp.searched.query)] \notin {9, 10, 32}
               /\ \E i, j \in 1..Len(wresp.payload.query) :
                    /\ SubSeq(wresp.payload.query, i, j) = wresp.searched.query
                    /\ \A k \in 1..Len(wresp.payload.query) :
                         (k < i \/ k > j) => wresp.payload.query[k] \in {9, 10, 32}

\* the query " q\n" was searched as "q"
C25_Witness ==
    /\ wresp.endpoint = FETCH
    /\ wresp.payload.query = <<32, 113, 10>>
    /\ "search" \in wresp.effects
    /\ wresp.searched.query = <<113>>

\* C26: the image route serves a file only if the resolved path of the
\* request lies under the exams root and is an existing regular file; every
\* other request is answered 404, whatever exam_id and rel_path are.
C26_ImagesOnlyUnderRoot ==
    mpc = "answered" =>
        /\ mresp.status \in {200, 404}
        /\ mresp.status = 200 <=>
             /\ mresp.file \in RegularFiles
             /\ Len(mresp.file) > Len(exams_root)
             /\ \A i \in 1..Len(exams_root) : mresp.file[i] = exams_root[i]
             /\ mresp.file =
                  resolve(<<>>, exam_asset_under_root(exams_root, mreq.exam_id, mreq.rel_path))
        /\ mresp.status = 404 => mresp.file = <<>>

\* a request that leaves the exam folder and comes back was served the file
C26_Witness ==
    /\ mpc = "answered"
    /\ mreq.exam_id = ".."
    /\ mreq.rel_path = [absolute |-> FALSE, segments |-> <<"exams", "e1", "p.png">>]
    /\ mresp = [status |-> 200, file |-> <<"data", "exams", "e1", "p.png">>]

\* C27: ExamFolderStructure.from_exam_dir returns the question folders sorted
\* ascending by directory name, whatever order the filesystem lists them in,
\* and process_exam_dir transcribes and writes the questions in that order:
\* the questions are exactly the matching folders, each name below the next;
\* question i is requested only when every earlier one has been, and the
\* outcomes and the writes follow the positions of the questions.
C27_QuestionsSortedByName ==
    (entry = "extract" /\ (xpc # "raised" \/ xqs # <<>>)) =>
        /\ {xqs[i].number : i \in 1..Len(xqs)} =
               {d.name : d \in {e \in xexam.dirs : fullmatch_q_digits(e.name)}}
        /\ \A i, j \in 1..Len(xqs) : i < j => NameLess(xqs[i].number, xqs[j].number)
        /\ \A i, j \in 1..Len(xqs) : i < j /\ xcalls[j] > 0 => xcalls[i] > 0
        /\ Len(xout) <= Len(xqs)
        /\ \A j \in 1..Len(xout) : xcalls[j] > 0
        /\ \A v, w \in 1..Len(xwrites) :
               v < w => xwrites[v].question < xwrites[w].question
        /\ \A w \in 1..Len(xwrites) :
               /\ xwrites[w].question \in Succeeded
               /\ xwrites[w].record.source_images = xqs[xwrites[w].question].number

\* C27 happens: q10 and q2 are both written, q10 first
C27_Witness ==
    /\ xpc = "done"
    /\ \E v, w \in 1..Len(xwrites) :
          /\ v < w
          /\ xqs[xwrites[v].question].number = <<113, 49, 48>>
          /\ xqs[xwrites[w].question].number = <<113, 50>>

(***************************************************************************)
(* QuestionRecord loaders: claims.                                         *)
(***************************************************************************)
\* the records a call has loaded: every item of the file, or every file of
\* the directory, validated as a record, once the path and its name passed
LoadedRecords ==
    IF /\ lreq.disk.kind = (IF lreq.fn = "from_yaml" THEN "file" ELSE "dir")
       /\ lreq.fn = "from_yaml" => suffix(lreq.name) = yaml_suffix
       /\ from_file_path(lreq.name).error = None
       /\ lreq.disk.shape = "list"
       /\ \A i \in 1..Len(lreq.disk.data) : lreq.disk.data[i].kind = "record"
    THEN [i \in 1..Len(lreq.disk.data) |-> [exam |-> [id |-> lreq.disk.data[i].exam_id]]]
    ELSE <<>>

\* C28: from_yaml and from_exam_dir return a record list only if all loaded
\* records share one exam id and it is the exam id given by the name of the
\* file or directory; when the loaded records do not, the call raises
\* ValueError and returns nothing.  Every returned list is non-empty and of
\* one exam id.
C28_ReturnedRecordsOfOneExam ==
    /\ lpc = "returned" =>
          /\ lret.records = LoadedRecords
          /\ lret.records # <<>>
          /\ \A i \in 1..Len(lret.records) : lret.records[i].exam.id = stem(lreq.name)
          /\ \A i, j \in 1..Len(lret.records) :
                lret.records[i].exam.id = lret.records[j].exam.id
    /\ (/\ lpc \in {"returned", "raised"}
        /\ LoadedRecords # <<>>
        /\ \E i \in 1..Len(LoadedRecords) : LoadedRecords[i].exam.id # stem(lreq.name)) =>
          /\ lpc = "raised"
          /\ lret.error = "ValueError"
          /\ lret.records = <<>>
    /\ lpc = "raised" => lret.records = <<>>

\* C28 happens: two records of one exam are returned by from_exam_dir
C28_Witness ==
    /\ lpc = "returned"
    /\ lreq.fn = "from_exam_dir"
    /\ Len(lret.records) = 2

(***************************************************************************)
(* Multipart questions: claims.                                            *)
(***************************************************************************)
\* the lowercase letters a..z
LowercaseLetters == 97..122

\* C29: after validation of a multipart question every part has a non-null
\* label: a part given without a label at position i (from 0) has the i-th
\* lowercase letter, a part given with a label has kept it, and the order,
\* the text and the points of the parts are as given.
C29_PartsLabelled ==
    qpc = "validated" =>
        /\ Len(qout) = Len(qin)
        /\ \A k \in 1..Len(qin) :
              /\ ~qout[k].label.null
              /\ qout[k].text = qin[k].text
              /\ qout[k].points = qin[k].points
              /\ ~qin[k].label.null => qout[k].label = qin[k].label
              /\ qin[k].label.null =>
                    /\ 97 + (k - 1) \in LowercaseLetters
                    /\ qout[k].label.text = <<97 + (k - 1)>>

\* C30: in every validated multipart question the labels of the parts are
\* pairwise distinct, whatever mix of labelled and unlabelled parts was given.
C30_LabelsDistinct ==
    qpc = "validated" =>
        \A j, k \in 1..Len(qout) : j # k => qout[j].label # qout[k].label

====
